---- MODULE Spec2Model ----
(***************************************************************************)
(* Capacity / status / alert derivation of the calibration-capacity        *)
(* system.  Two classifiers live in the repository:                        *)
(*   - CapacityManager  (SQLite variant, thresholds in percent + months)   *)
(*   - CapacityService  (Mongoose variant, thresholds as fractions)        *)
(* and one stateless alert generator, AlertManager.generateAlertsForGauge. *)
(*                                                                         *)
(* Numbers are JavaScript numbers restricted to integers plus NaN; a       *)
(* quotient is kept as a numerator/denominator pair so that no rounding    *)
(* is introduced (denominator 0 encodes Infinity, -Infinity and NaN).      *)
(* Fractions of the Mongoose thresholds are kept in hundredths.            *)
(* A Date is an instant at the resolution of a day, [ym, d]: ym counts     *)
(* months from January of year 0 (a non-leap year, year 1 is a leap year), *)
(* d is the day of the month.  Local time is taken to be UTC.              *)
(***************************************************************************)
EXTENDS Integers, Sequences, FiniteSets, TLC

VARIABLES profile, thresholds, svcThresholds, now, op, status, alerts, error,
          prevStatus, ticked, nextDate,
          deployment, gauges, alertStore, audit, stored, nextId, last, requests,
          docs, pc, found,
          wss, clients, readyState, signalled, inbox, sends

\* the calls of the classifiers and of the alert generator on one gauge
harnessVars == <<profile, thresholds, svcThresholds, now, op, status, alerts, error,
                 prevStatus, ticked, nextDate>>

\* the stores behind the request handlers, and the last answer given
systemVars == <<deployment, gauges, alertStore, audit, stored, nextId, last, requests>>

\* a table or collection under concurrent requests: its rows, where each
\* request stands and what it last read
repoVars == <<docs, pc, found>>

\* the WebSocketManager: its server, its client set, and for every socket
\* its readyState, the event last emitted on it and the messages it was sent;
\* the number of broadcast() calls made
wsVars == <<wss, clients, readyState, signalled, inbox, sends>>

vars == <<harnessVars, systemVars, repoVars, wsVars>>

----------------------------------------------------------------------------
(* Bounds of the model                                                     *)

MaxLastMonth == 1
MaxYears == 1
MaxWarningMonths == 1

----------------------------------------------------------------------------
(* JavaScript numbers: [nan, v] is NaN when nan holds, else the integer v  *)

Num(v) == [nan |-> FALSE, v |-> v]

NaN == [nan |-> TRUE, v |-> 0]

IsNaN(x) == x.nan

\* a <= b and a >= b on numbers: every comparison with NaN is false
NumLte(a, b) == ~IsNaN(a) /\ ~IsNaN(b) /\ a.v <= b.v

NumGte(a, b) == ~IsNaN(a) /\ ~IsNaN(b) /\ a.v >= b.v

\* a - b and a * b
NumSub(a, b) == IF IsNaN(a) \/ IsNaN(b) THEN NaN ELSE Num(a.v - b.v)

NumMul(a, b) == IF IsNaN(a) \/ IsNaN(b) THEN NaN ELSE Num(a.v * b.v)

\* !x for a number: 0 and NaN are falsy
Falsy(x) == IsNaN(x) \/ x.v = 0

\* (a / b) * 100 as an exact quotient [num, den] with den > 0;
\* den = 0 encodes the non-finite results: num 1 Infinity, -1 -Infinity, 0 NaN
Percentage(a, b) ==
    IF IsNaN(a) \/ IsNaN(b) THEN [num |-> 0, den |-> 0]
    ELSE IF b.v = 0
         THEN [num |-> (IF a.v > 0 THEN 1 ELSE IF a.v < 0 THEN -1 ELSE 0), den |-> 0]
    ELSE IF b.v > 0 THEN [num |-> a.v * 100, den |-> b.v]
    ELSE [num |-> (0 - a.v) * 100, den |-> 0 - b.v]

\* q >= n for a quotient q and a number n
QuotGte(q, n) ==
    IF IsNaN(n) THEN FALSE
    ELSE IF q.den = 0 THEN q.num = 1
    ELSE q.num >= n.v * q.den

----------------------------------------------------------------------------
(* JavaScript Date, at the resolution of a day                             *)

getFullYear(date) == date.ym \div 12

getMonth(date) == date.ym % 12

IsLeapYear(y) == y % 4 = 1

DaysInMonth(ym) ==
    LET m == ym % 12
    IN  IF m = 1 THEN (IF IsLeapYear(ym \div 12) THEN 29 ELSE 28)
        ELSE IF m \in {3, 5, 8, 10} THEN 30
        ELSE 31

\* slip: the month wraps within the year, the year is not carried
setMonth_yearNotCarried(date, n) ==
    LET target == ((date.ym \div 12) * 12) + ((date.ym + n) % 12)
    IN  IF date.d <= DaysInMonth(target)
        THEN [ym |-> target, d |-> date.d]
        ELSE [ym |-> target + 1, d |-> date.d - DaysInMonth(target)]

\* Date.prototype.setMonth(getMonth() + n): the day of the month is kept and
\* a day past the end of the target month rolls over into the next month
setMonth(date, n) ==
    LET target == date.ym + n
    IN  IF date.d <= DaysInMonth(target)
        THEN [ym |-> target, d |-> date.d]
        ELSE [ym |-> target + 1, d |-> date.d - DaysInMonth(target)]

\* a missing (undefined) Date or number
Undefined == [ym |-> 0, d |-> 0]

UndefinedNum == [nan |-> TRUE, v |-> 1]

\* date1 < date2 on Dates; an undefined operand makes the comparison false

DateLt(date1, date2) ==
    IF date1 = Undefined \/ date2 = Undefined THEN FALSE
    ELSE \/ date1.ym < date2.ym
         \/ (date1.ym = date2.ym /\ date1.d < date2.d)

----------------------------------------------------------------------------
(* CapacityManager (SQLite variant)                                        *)

\* slip: the operands of the subtraction swapped
calculateRemainingCapacity_swapped(p) ==
    NumSub(p.produced_quantity, p.max_capacity)

CapacityManager_calculateRemainingCapacity(p) ==
    NumSub(p.max_capacity, p.produced_quantity)

\* slip: completed months (a month counts once its day of the month is reached)
getMonthsDifference_completedMonths(date1, date2) ==
    LET yearDiff == getFullYear(date2) - getFullYear(date1)
        monthDiff == getMonth(date2) - getMonth(date1)
    IN  yearDiff * 12 + monthDiff - (IF date2.d < date1.d THEN 1 ELSE 0)

\* yearDiff * 12 + monthDiff
getMonthsDifference(date1, date2) ==
    LET yearDiff == getFullYear(date2) - getFullYear(date1)
        monthDiff == getMonth(date2) - getMonth(date1)
    IN  yearDiff * 12 + monthDiff

\* q > n for a quotient q and a number n
QuotGt(q, n) ==
    IF IsNaN(n) THEN FALSE
    ELSE IF q.den = 0 THEN q.num = 1
    ELSE q.num > n.v * q.den

\* slip: the near-limit test strict (> instead of >=)
determineGaugeStatus_strictNearLimit(p, t, today) ==
    LET remainingCapacity == CapacityManager_calculateRemainingCapacity(p)
        capacityPercentage == Percentage(p.produced_quantity, p.max_capacity)
        monthsSinceCalibration == Num(getMonthsDifference(p.last_calibration_date, today))
        monthsUntilCalibration == NumSub(p.calibration_frequency, monthsSinceCalibration)
    IN  IF NumLte(remainingCapacity, Num(0)) THEN "overdue"
        ELSE IF NumGte(monthsSinceCalibration, p.calibration_frequency) THEN "calibration_required"
        ELSE IF NumLte(monthsUntilCalibration, Num(t.calibration_warning_months)) THEN "calibration_required"
        ELSE IF QuotGt(capacityPercentage, Num(t.near_limit_percentage)) THEN "near_limit"
        ELSE "safe"

\* slip: the capacity-percentage test placed before the calibration tests
determineGaugeStatus_nearLimitFirst(p, t, today) ==
    LET remainingCapacity == CapacityManager_calculateRemainingCapacity(p)
        capacityPercentage == Percentage(p.produced_quantity, p.max_capacity)
        monthsSinceCalibration == Num(getMonthsDifference(p.last_calibration_date, today))
        monthsUntilCalibration == NumSub(p.calibration_frequency, monthsSinceCalibration)
    IN  IF NumLte(remainingCapacity, Num(0)) THEN "overdue"
        ELSE IF QuotGte(capacityPercentage, Num(t.near_limit_percentage)) THEN "near_limit"
        ELSE IF NumGte(monthsSinceCalibration, p.calibration_frequency) THEN "calibration_required"
        ELSE IF NumLte(monthsUntilCalibration, Num(t.calibration_warning_months)) THEN "calibration_required"
        ELSE "safe"

CapacityManager_determineGaugeStatus(p, t, today) ==
    LET remainingCapacity == CapacityManager_calculateRemainingCapacity(p)
        capacityPercentage == Percentage(p.produced_quantity, p.max_capacity)
        monthsSinceCalibration == Num(getMonthsDifference(p.last_calibration_date, today))
        monthsUntilCalibration == NumSub(p.calibration_frequency, monthsSinceCalibration)
    IN  IF NumLte(remainingCapacity, Num(0)) THEN "overdue"
        ELSE IF NumGte(monthsSinceCalibration, p.calibration_frequency) THEN "calibration_required"
        ELSE IF NumLte(monthsUntilCalibration, Num(t.calibration_warning_months)) THEN "calibration_required"
        ELSE IF QuotGte(capacityPercentage, Num(t.near_limit_percentage)) THEN "near_limit"
        ELSE "safe"

CapacityManager_calculateNextCalibrationDate(p) ==
    setMonth(p.last_calibration_date, p.calibration_frequency.v)

----------------------------------------------------------------------------
(* CapacityService (Mongoose variant); thresholds in hundredths            *)

DefaultCalibrationRequiredThreshold == 10
DefaultNearLimitThreshold == 20
DefaultOverdueCapacityThreshold == 0

DefaultServiceThresholds ==
    [calibration_required_threshold |-> DefaultCalibrationRequiredThreshold,
     near_limit_threshold |-> DefaultNearLimitThreshold,
     overdue_capacity_threshold |-> DefaultOverdueCapacityThreshold]

CapacityService_calculateRemainingCapacity(g) ==
    NumSub(g.max_capacity, g.produced_quantity)

\* remainingCapacity <= max_capacity * threshold, the threshold in hundredths
LteFractionOf(remainingCapacity, max_capacity, hundredths) ==
    NumLte(NumMul(remainingCapacity, Num(100)), NumMul(max_capacity, Num(hundredths)))

\* slip: the date comparison reversed (now < next_calibration_date)
determineGaugeStatus_dateReversed(g, t, today) ==
    LET remainingCapacity == CapacityService_calculateRemainingCapacity(g)
    IN  IF \/ LteFractionOf(remainingCapacity, g.max_capacity, t.overdue_capacity_threshold)
           \/ DateLt(today, g.next_calibration_date)
        THEN "overdue"
        ELSE IF LteFractionOf(remainingCapacity, g.max_capacity, t.calibration_required_threshold)
        THEN "calibration_required"
        ELSE IF LteFractionOf(remainingCapacity, g.max_capacity, t.near_limit_threshold)
        THEN "near_limit"
        ELSE "safe"

\* slip: state kept between calls; a status other than safe is reported
\* once and the next call answers safe
determineGaugeStatus_reportedOnce(g, t, today) ==
    LET remainingCapacity == CapacityService_calculateRemainingCapacity(g)
    IN  IF status \in {"near_limit", "calibration_required", "overdue"}
        THEN "safe"
        ELSE IF \/ LteFractionOf(remainingCapacity, g.max_capacity, t.overdue_capacity_threshold)
                \/ DateLt(g.next_calibration_date, today)
        THEN "overdue"
        ELSE IF LteFractionOf(remainingCapacity, g.max_capacity, t.calibration_required_threshold)
        THEN "calibration_required"
        ELSE IF LteFractionOf(remainingCapacity, g.max_capacity, t.near_limit_threshold)
        THEN "near_limit"
        ELSE "safe"

CapacityService_determineGaugeStatus(g, t, today) ==
    LET remainingCapacity == CapacityService_calculateRemainingCapacity(g)
    IN  IF \/ LteFractionOf(remainingCapacity, g.max_capacity, t.overdue_capacity_threshold)
           \/ DateLt(g.next_calibration_date, today)
        THEN "overdue"
        ELSE IF LteFractionOf(remainingCapacity, g.max_capacity, t.calibration_required_threshold)
        THEN "calibration_required"
        ELSE IF LteFractionOf(remainingCapacity, g.max_capacity, t.near_limit_threshold)
        THEN "near_limit"
        ELSE "safe"

CapacityService_calculateNextCalibrationDate(lastCalibrationDate, frequencyMonths) ==
    setMonth(lastCalibrationDate, frequencyMonths.v)

\* the derived fields of a gauge, recomputed from its source fields
CapacityService_updateCalculatedFields(g, today) ==
    LET hasCapacity == ~Falsy(g.max_capacity)
        hasFrequency == ~Falsy(g.calibration_frequency)
        remaining == IF hasCapacity
                     THEN NumSub(g.max_capacity, g.produced_quantity)
                     ELSE UndefinedNum
        next == IF hasFrequency
                THEN CapacityService_calculateNextCalibrationDate(
                         g.last_calibration_date, g.calibration_frequency)
                ELSE Undefined
        withNext == [max_capacity |-> g.max_capacity,
                     produced_quantity |-> g.produced_quantity,
                     calibration_frequency |-> g.calibration_frequency,
                     last_calibration_date |-> g.last_calibration_date,
                     remaining_capacity |-> remaining,
                     next_calibration_date |-> next]
    IN  [max_capacity |-> g.max_capacity,
         produced_quantity |-> g.produced_quantity,
         calibration_frequency |-> g.calibration_frequency,
         last_calibration_date |-> g.last_calibration_date,
         remaining_capacity |-> remaining,
         next_calibration_date |-> next,
         status |-> IF remaining # UndefinedNum /\ hasCapacity /\ next # Undefined
                    THEN CapacityService_determineGaugeStatus(
                             withNext, DefaultServiceThresholds, today)
                    ELSE "undefined"]

----------------------------------------------------------------------------
(* AlertManager.generateAlertsForGauge (stateless alert generator)         *)

Alert(type, severity) == [type |-> type, severity |-> severity]

\* slip: the exceeded test strict (remainingCapacity < 0)
generateAlertsForGauge_strictExceeded(p, t, today) ==
    LET remainingCapacity == CapacityManager_calculateRemainingCapacity(p)
        capacityPercentage == Percentage(p.produced_quantity, p.max_capacity)
        capacityAlerts ==
            IF NumLte(remainingCapacity, Num(0 - 1)) THEN <<Alert("capacity", "high")>>
            ELSE IF QuotGte(capacityPercentage, Num(t.near_limit_percentage))
            THEN <<Alert("capacity", "medium")>>
            ELSE <<>>
        monthsSinceCalibration == Num(getMonthsDifference(p.last_calibration_date, today))
        monthsUntilCalibration == NumSub(p.calibration_frequency, monthsSinceCalibration)
        calibrationAlerts ==
            IF NumGte(monthsSinceCalibration, p.calibration_frequency)
            THEN <<Alert("calibration", "high")>>
            ELSE IF NumLte(monthsUntilCalibration, Num(t.calibration_warning_months))
            THEN <<Alert("calibration", "medium")>>
            ELSE <<>>
    IN  capacityAlerts \o calibrationAlerts

\* slip: the warning window taken one month wider
generateAlertsForGauge_widerWarning(p, t, today) ==
    LET remainingCapacity == CapacityManager_calculateRemainingCapacity(p)
        capacityPercentage == Percentage(p.produced_quantity, p.max_capacity)
        capacityAlerts ==
            IF NumLte(remainingCapacity, Num(0)) THEN <<Alert("capacity", "high")>>
            ELSE IF QuotGte(capacityPercentage, Num(t.near_limit_percentage))
            THEN <<Alert("capacity", "medium")>>
            ELSE <<>>
        monthsSinceCalibration == Num(getMonthsDifference(p.last_calibration_date, today))
        monthsUntilCalibration == NumSub(p.calibration_frequency, monthsSinceCalibration)
        calibrationAlerts ==
            IF NumGte(monthsSinceCalibration, p.calibration_frequency)
            THEN <<Alert("calibration", "high")>>
            ELSE IF NumLte(monthsUntilCalibration, Num(t.calibration_warning_months + 1))
            THEN <<Alert("calibration", "medium")>>
            ELSE <<>>
    IN  capacityAlerts \o calibrationAlerts

AlertManager_generateAlertsForGauge(p, t, today) ==
    LET remainingCapacity == CapacityManager_calculateRemainingCapacity(p)
        capacityPercentage == Percentage(p.produced_quantity, p.max_capacity)
        capacityAlerts ==
            IF NumLte(remainingCapacity, Num(0)) THEN <<Alert("capacity", "high")>>
            ELSE IF QuotGte(capacityPercentage, Num(t.near_limit_percentage))
            THEN <<Alert("capacity", "medium")>>
            ELSE <<>>
        monthsSinceCalibration == Num(getMonthsDifference(p.last_calibration_date, today))
        monthsUntilCalibration == NumSub(p.calibration_frequency, monthsSinceCalibration)
        calibrationAlerts ==
            IF NumGte(monthsSinceCalibration, p.calibration_frequency)
            THEN <<Alert("calibration", "high")>>
            ELSE IF NumLte(monthsUntilCalibration, Num(t.calibration_warning_months))
            THEN <<Alert("calibration", "medium")>>
            ELSE <<>>
    IN  capacityAlerts \o calibrationAlerts

----------------------------------------------------------------------------
(* AlertService.generateAlertsForGauge (Mongoose variant): one alert by    *)
(* the status the gauge carries                                            *)

AlertService_generateAlertsForGauge(g) ==
    CASE g.status = "overdue" -> <<Alert("overdue_calibration", "critical")>>
      [] g.status = "calibration_required" -> <<Alert("upcoming_calibration", "warning")>>
      [] g.status = "near_limit" -> <<Alert("capacity_exhaustion", "warning")>>
      [] OTHER -> <<>>

----------------------------------------------------------------------------
(* Inputs                                                                  *)

\* <<max_capacity, produced_quantity>> pairs a stored gauge can carry,
\* the over-filled ones included
WellFormedQuantities ==
    {<<Num(10), Num(0)>>, <<Num(10), Num(5)>>, <<Num(10), Num(8)>>, <<Num(10), Num(9)>>,
     <<Num(10), Num(10)>>, <<Num(10), Num(11)>>,
     <<Num(1000), Num(850)>>, <<Num(1000), Num(1000)>>}

\* pairs with a malformed number: zero, negative or NaN capacity,
\* negative or NaN produced quantity
MalformedQuantities ==
    {<<Num(0), Num(0)>>, <<Num(0 - 10), Num(5)>>, <<NaN, Num(5)>>,
     <<Num(10), Num(0 - 1)>>, <<Num(10), NaN>>}

Frequencies == {1, 2, 12}

LastCalibrationDates ==
    {date \in [ym : 0..MaxLastMonth, d : {1, 31}] : date.d <= DaysInMonth(date.ym)}

NowDates == [ym : {12 * y + k : y \in 0..MaxYears, k \in 0..1}, d : {1, 15}]

Profile(q, f, date) ==
    [max_capacity |-> q[1], produced_quantity |-> q[2],
     calibration_frequency |-> Num(f), last_calibration_date |-> date]

Profiles ==
    {Profile(q, f, date) :
        q \in WellFormedQuantities, f \in Frequencies, date \in LastCalibrationDates}
    \cup {Profile(q, 12, date) : q \in MalformedQuantities, date \in LastCalibrationDates}
    \cup {Profile(<<Num(10), Num(0)>>, 0, date) : date \in LastCalibrationDates}

\* capacity_thresholds row of the SQLite variant
ManagerThresholds ==
    [near_limit_percentage : {50, 80, 100, 120},
     calibration_warning_months : 0..MaxWarningMonths]

\* CapacityThresholds document of the Mongoose variant, each value within 0..1
ServiceThresholds ==
    {DefaultServiceThresholds,
     [calibration_required_threshold |-> 20, near_limit_threshold |-> 10,
      overdue_capacity_threshold |-> 0],
     [calibration_required_threshold |-> 20, near_limit_threshold |-> 20,
      overdue_capacity_threshold |-> 0],
     [calibration_required_threshold |-> 10, near_limit_threshold |-> 20,
      overdue_capacity_threshold |-> 10],
     [calibration_required_threshold |-> 10, near_limit_threshold |-> 10,
      overdue_capacity_threshold |-> 20]}

Statuses == {"safe", "near_limit", "calibration_required", "overdue"}

----------------------------------------------------------------------------
(* The stores and the request handlers.  Three deployments share the       *)
(* layout of the stores:                                                   *)
(*   "ts"    server.ts with routes/gauges and routes/upload over Database  *)
(*   "js"    the plain JavaScript server over the same Database            *)
(*   "mongo" the Mongoose repositories, services and admin/alert routes    *)
(* A handler runs to completion before the next request is taken.  A       *)
(* gauge row keeps the fields the handlers compute with; uuids are drawn   *)
(* from a counter.                                                         *)

MaxRequests == 3

GaugeIds == {"G1", "G2"}

Users == {"alice"}

GaugeRow(id, q, f, date, user) ==
    [gauge_id |-> id, max_capacity |-> q[1], produced_quantity |-> q[2],
     calibration_frequency |-> Num(f), last_calibration_date |-> date,
     last_modified_by |-> user]

\* no row (null)
NoRow == GaugeRow("none", <<Num(0), Num(0)>>, 0, Undefined, "none")

\* the row with that gauge_id (SELECT ... WHERE gauge_id = ?), or null
getGaugeProfileById(rows, gaugeId) ==
    IF \E r \in rows : r.gauge_id = gaugeId
    THEN CHOOSE r \in rows : r.gauge_id = gaugeId
    ELSE NoRow

\* a < b and a > b on numbers
NumLt(a, b) == ~IsNaN(a) /\ ~IsNaN(b) /\ a.v < b.v

NumGt(a, b) == ~IsNaN(a) /\ ~IsNaN(b) /\ a.v > b.v

\* q < n for a quotient q and a number n
QuotLt(q, n) ==
    IF IsNaN(n) THEN FALSE
    ELSE IF q.den = 0 THEN q.num = 0 - 1
    ELSE q.num < n.v * q.den

\* ExcelProcessor.validateGaugeProfile(profile).valid
ExcelProcessor_validateGaugeProfile(p) ==
    /\ p.gauge_id # ""
    /\ ~(Falsy(p.calibration_frequency) \/ NumLte(p.calibration_frequency, Num(0)))
    /\ p.last_calibration_date # Undefined
    /\ ~NumLt(p.produced_quantity, Num(0))
    /\ ~(Falsy(p.max_capacity) \/ NumLte(p.max_capacity, Num(0)))
    /\ ~(/\ ~Falsy(p.produced_quantity) /\ ~Falsy(p.max_capacity)
         /\ NumGt(p.produced_quantity, p.max_capacity))

\* an alert the generators return, before it is stored
NewAlert(type, severity, message) ==
    [type |-> type, severity |-> severity, message |-> message]

WithMessage(as, message) ==
    [i \in 1..Len(as) |-> NewAlert(as[i].type, as[i].severity, message)]

\* slip: the crossing alert by the level of the new state alone
processGaugeUpdate_levelTriggered(oldProfile, newProfile, t, today) ==
    LET newCapacityPercentage ==
            Percentage(newProfile.produced_quantity, newProfile.max_capacity)
        crossed ==
            IF QuotGte(newCapacityPercentage, Num(t.near_limit_percentage))
            THEN <<NewAlert("capacity", "medium", "crossed capacity threshold")>>
            ELSE <<>>
        exceeded ==
            IF NumGt(newProfile.produced_quantity, newProfile.max_capacity)
            THEN <<NewAlert("capacity", "high", "exceeded maximum capacity")>>
            ELSE <<>>
    IN  crossed \o exceeded

\* AlertManager.processGaugeUpdate(oldProfile, newProfile, thresholds)
AlertManager_processGaugeUpdate(oldProfile, newProfile, t, today) ==
    LET oldCapacityPercentage ==
            Percentage(oldProfile.produced_quantity, oldProfile.max_capacity)
        newCapacityPercentage ==
            Percentage(newProfile.produced_quantity, newProfile.max_capacity)
        crossed ==
            IF /\ QuotLt(oldCapacityPercentage, Num(t.near_limit_percentage))
               /\ QuotGte(newCapacityPercentage, Num(t.near_limit_percentage))
            THEN <<NewAlert("capacity", "medium", "crossed capacity threshold")>>
            ELSE <<>>
        exceeded ==
            IF /\ NumLte(oldProfile.produced_quantity, oldProfile.max_capacity)
               /\ NumGt(newProfile.produced_quantity, newProfile.max_capacity)
            THEN <<NewAlert("capacity", "high", "exceeded maximum capacity")>>
            ELSE <<>>
        monthsSinceCalibration ==
            Num(getMonthsDifference(newProfile.last_calibration_date, today))
        calibration ==
            IF oldProfile.last_calibration_date = newProfile.last_calibration_date
            THEN <<>>
            ELSE IF NumLt(monthsSinceCalibration, Num(0))
            THEN <<NewAlert("calibration", "low", "updated to future date")>>
            ELSE IF NumGte(monthsSinceCalibration, newProfile.calibration_frequency)
            THEN <<NewAlert("calibration", "high", "still overdue after update")>>
            ELSE <<>>
    IN  crossed \o exceeded \o calibration

\* the rows db.createAlert inserts for the alerts a generator returned,
\* their ids drawn after `base`
AlertRows(as, gaugeId, base, today) ==
    {[id |-> base + i, gauge_id |-> gaugeId, type |-> as[i].type,
      severity |-> as[i].severity, message |-> as[i].message,
      created_at |-> today, acknowledged |-> FALSE,
      acknowledged_by |-> "none", acknowledged_at |-> Undefined] :
        i \in 1..Len(as)}

\* the row db.createAuditEntry inserts
AuditRow(id, gaugeId, action, user, today) ==
    [id |-> id, gauge_id |-> gaugeId, action |-> action, user |-> user,
     timestamp |-> today]

\* what a handler answered: the route, the status code, the gauge or alert
\* the request named, the row read before the change, the alerts created
Response(route, code, target, old, emitted) ==
    [route |-> route, code |-> code, target |-> target, old |-> old,
     emitted |-> emitted]

\* near_limit_percentage 80, calibration_warning_months 1 (the seeded row)
SeededThresholds == [near_limit_percentage |-> 80, calibration_warning_months |-> 1]

\* <<max_capacity, produced_quantity>> of the request bodies and sheet rows
BodyQuantities ==
    {<<Num(20), Num(14)>>, <<Num(20), Num(17)>>, <<Num(20), Num(18)>>,
     <<Num(20), Num(21)>>, <<Num(0), Num(0)>>, <<Num(20), Num(0 - 1)>>}

\* the calibration date every body carries, and the current date
BodyDate == [ym |-> 0, d |-> 1]

Today == [ym |-> 1, d |-> 15]

\* request bodies and sheet rows: for the first gauge every quantity pair
\* with frequency 12 and one in-range pair with the frequencies 0 and 1;
\* for the second gauge one in-range body
Bodies ==
    {GaugeRow("G1", q, 12, BodyDate, u) : q \in BodyQuantities, u \in Users}
    \cup {GaugeRow("G1", <<Num(20), Num(14)>>, f, BodyDate, u) : f \in {0, 1}, u \in Users}
    \cup {GaugeRow("G2", <<Num(20), Num(17)>>, 12, BodyDate, u) : u \in Users}

ThresholdBodies ==
    {SeededThresholds, [near_limit_percentage |-> 90, calibration_warning_months |-> 1]}

\* no deployment is serving
SystemIdle ==
    /\ deployment = "none"
    /\ gauges = {}
    /\ alertStore = {}
    /\ audit = {}
    /\ stored = SeededThresholds
    /\ nextId = 0
    /\ last = Response("none", 0, "none", NoRow, {})
    /\ requests = 0

\* no call on the repository is in flight
RepoIdle ==
    /\ docs = {}
    /\ pc = <<>>
    /\ found = <<>>

\* the sockets that can connect to /ws
Sockets == {"w1", "w2"}

\* a WebSocketManager as constructed: no server, no client
WsIdle ==
    /\ wss = "null"
    /\ clients = {}
    /\ readyState = [c \in Sockets |-> "NONE"]
    /\ signalled = [c \in Sockets |-> "none"]
    /\ inbox = [c \in Sockets |-> <<>>]
    /\ sends = 0

----------------------------------------------------------------------------
(* The calls                                                               *)

\* the gauge as the Mongoose variant holds it: derived fields recomputed
Gauge == CapacityService_updateCalculatedFields(profile, now)

Init ==
    /\ profile \in Profiles
    /\ thresholds \in ManagerThresholds
    /\ svcThresholds \in ServiceThresholds
    /\ now \in NowDates
    /\ op = "none"
    /\ status = "none"
    /\ alerts = <<>>
    /\ error = "none"   \* the exception a call raised; no call has a throw or a validation
    /\ prevStatus = "none"
    /\ ticked = FALSE
    /\ nextDate = Undefined
    /\ SystemIdle
    /\ RepoIdle
    /\ WsIdle

\* CapacityManager.determineGaugeStatus(profile, thresholds)
ManagerClassify ==
    /\ op = "none"
    /\ op' = "manager"
    /\ status' = CapacityManager_determineGaugeStatus(profile, thresholds, now)
    /\ UNCHANGED <<profile, thresholds, svcThresholds, now, alerts, error, prevStatus, ticked,
                   nextDate, systemVars, repoVars, wsVars>>

\* CapacityService.determineGaugeStatus(gauge, thresholds)
ServiceClassify ==
    /\ op = "none"
    /\ op' = "service"
    /\ status' = CapacityService_determineGaugeStatus(Gauge, svcThresholds, now)
    /\ UNCHANGED <<profile, thresholds, svcThresholds, now, alerts, error, prevStatus, ticked,
                   nextDate, systemVars, repoVars, wsVars>>

\* AlertManager.generateAlertsForGauge(profile, thresholds)
GenerateAlerts ==
    /\ op = "none"
    /\ op' = "alerts"
    /\ alerts' = AlertManager_generateAlertsForGauge(profile, thresholds, now)
    /\ UNCHANGED <<profile, thresholds, svcThresholds, now, status, error, prevStatus, ticked,
                   nextDate, systemVars, repoVars, wsVars>>

\* new Date() returns a later day on a later call
Tick ==
    /\ op \in {"manager", "service"}
    /\ ~ticked
    /\ \E later \in NowDates : DateLt(now, later) /\ now' = later
    /\ ticked' = TRUE
    /\ UNCHANGED <<profile, thresholds, svcThresholds, op, status, alerts, error, prevStatus,
                   nextDate, systemVars, repoVars, wsVars>>

\* a second call with the same gauge record and the same thresholds
ManagerClassifyAgain ==
    /\ op = "manager"
    /\ op' = "manager_again"
    /\ prevStatus' = status
    /\ status' = CapacityManager_determineGaugeStatus(profile, thresholds, now)
    /\ UNCHANGED <<profile, thresholds, svcThresholds, now, alerts, error, ticked,
                   nextDate, systemVars, repoVars, wsVars>>

ServiceClassifyAgain ==
    /\ op = "service"
    /\ op' = "service_again"
    /\ prevStatus' = status
    /\ status' = CapacityService_determineGaugeStatus(Gauge, svcThresholds, now)
    /\ UNCHANGED <<profile, thresholds, svcThresholds, now, alerts, error, ticked,
                   nextDate, systemVars, repoVars, wsVars>>

\* produced quantities reachable from p by producing more, up to max_capacity
MoreProduced(p) ==
    {q[2] : q \in {w \in WellFormedQuantities :
                      /\ w[1] = p.max_capacity
                      /\ NumGte(w[2], p.produced_quantity)
                      /\ NumLte(w[2], p.max_capacity)}}

\* the gauge with a larger produced_quantity, everything else equal,
\* classified on the same day with the same thresholds
ManagerClassifyMoreProduced ==
    /\ op = "manager"
    /\ ~ticked
    /\ \E produced \in MoreProduced(profile) :
          /\ profile' = [profile EXCEPT !.produced_quantity = produced]
          /\ status' = CapacityManager_determineGaugeStatus(profile', thresholds, now)
    /\ op' = "manager_more"
    /\ prevStatus' = status
    /\ UNCHANGED <<thresholds, svcThresholds, now, alerts, error, ticked,
                   nextDate, systemVars, repoVars, wsVars>>

ServiceClassifyMoreProduced ==
    /\ op = "service"
    /\ ~ticked
    /\ \E produced \in MoreProduced(profile) :
          /\ profile' = [profile EXCEPT !.produced_quantity = produced]
          /\ status' = CapacityService_determineGaugeStatus(
                           CapacityService_updateCalculatedFields(profile', now),
                           svcThresholds, now)
    /\ op' = "service_more"
    /\ prevStatus' = status
    /\ UNCHANGED <<thresholds, svcThresholds, now, alerts, error, ticked,
                   nextDate, systemVars, repoVars, wsVars>>

\* the gauge just classified handed to AlertManager.generateAlertsForGauge
ManagerGenerateAlerts ==
    /\ op = "manager"
    /\ op' = "manager_alerts"
    /\ alerts' = AlertManager_generateAlertsForGauge(profile, thresholds, now)
    /\ UNCHANGED <<profile, thresholds, svcThresholds, now, status, error, prevStatus, ticked,
                   nextDate, systemVars, repoVars, wsVars>>

\* alertService.generateAlertsForGauge({ ...gaugeData, status: newStatus })
ServiceGenerateAlerts ==
    /\ op = "service"
    /\ op' = "service_alerts"
    /\ alerts' = AlertService_generateAlertsForGauge([Gauge EXCEPT !.status = status])
    /\ UNCHANGED <<profile, thresholds, svcThresholds, now, status, error, prevStatus, ticked,
                   nextDate, systemVars, repoVars, wsVars>>

\* CapacityManager.calculateNextCalibrationDate(profile)
ManagerNextCalibrationDate ==
    /\ op = "none"
    /\ op' = "manager_next"
    /\ nextDate' = CapacityManager_calculateNextCalibrationDate(profile)
    /\ UNCHANGED <<profile, thresholds, svcThresholds, now, status, alerts, error,
                   prevStatus, ticked, systemVars, repoVars, wsVars>>

\* CapacityService.calculateNextCalibrationDate(lastCalibrationDate, frequencyMonths)
ServiceNextCalibrationDate ==
    /\ op = "none"
    /\ op' = "service_next"
    /\ nextDate' = CapacityService_calculateNextCalibrationDate(
                       profile.last_calibration_date, profile.calibration_frequency)
    /\ UNCHANGED <<profile, thresholds, svcThresholds, now, status, alerts, error,
                   prevStatus, ticked, systemVars, repoVars, wsVars>>

Next ==
    \/ ManagerClassify
    \/ ServiceClassify
    \/ GenerateAlerts
    \/ Tick
    \/ ManagerClassifyAgain
    \/ ServiceClassifyAgain
    \/ ManagerClassifyMoreProduced
    \/ ServiceClassifyMoreProduced
    \/ ManagerGenerateAlerts
    \/ ServiceGenerateAlerts
    \/ ManagerNextCalibrationDate
    \/ ServiceNextCalibrationDate

Spec == Init /\ [][Next]_vars

----------------------------------------------------------------------------
(* Deployment "ts": routes/gauges, routes/upload and server.ts             *)

Answer(response) ==
    /\ last' = response
    /\ requests' = requests + 1

Rejected(route, code, target) ==
    /\ Answer(Response(route, code, target, NoRow, {}))
    /\ UNCHANGED <<gauges, alertStore, audit, stored, nextId>>

\* POST /api/gauges
TsCreateGauge ==
    /\ deployment = "ts"
    /\ requests < MaxRequests
    /\ \E body \in Bodies :
        LET route == "POST /api/gauges"
            existingProfile == getGaugeProfileById(gauges, body.gauge_id)
            new == AlertRows(
                       WithMessage(AlertManager_generateAlertsForGauge(body, stored, now),
                                   "level"),
                       body.gauge_id, nextId + 1, now)
        IN  IF ~ExcelProcessor_validateGaugeProfile(body)
            THEN Rejected(route, 400, body.gauge_id)
            ELSE IF existingProfile # NoRow
            THEN Rejected(route, 409, body.gauge_id)
            ELSE /\ gauges' = gauges \cup {body}
                 /\ audit' = audit \cup
                        {AuditRow(nextId + 1, body.gauge_id, "create",
                                  body.last_modified_by, now)}
                 /\ alertStore' = alertStore \cup new
                 /\ nextId' = nextId + 1 + Cardinality(new)
                 /\ Answer(Response(route, 201, body.gauge_id, NoRow,
                                    {a.id : a \in new}))
                 /\ UNCHANGED stored
    /\ UNCHANGED <<deployment, harnessVars, repoVars, wsVars>>

\* slip: gauge_id is written along with the other fields
UpdatedRow_writesGaugeId(row, updateData) ==
    [row EXCEPT !.gauge_id = updateData.gauge_id,
                !.max_capacity = updateData.max_capacity,
                !.produced_quantity = updateData.produced_quantity,
                !.calibration_frequency = updateData.calibration_frequency,
                !.last_calibration_date = updateData.last_calibration_date,
                !.last_modified_by = updateData.last_modified_by]

\* what a gauge update answered, with the gauge_id the body supplied
UpdateResponse(route, code, target, old, emitted, supplied) ==
    [route |-> route, code |-> code, target |-> target, old |-> old,
     emitted |-> emitted, supplied |-> supplied]

\* the row after db.updateGaugeProfile(gaugeId, updateData): id and
\* gauge_id are never written
UpdatedRow(row, updateData) ==
    [row EXCEPT !.max_capacity = updateData.max_capacity,
                !.produced_quantity = updateData.produced_quantity,
                !.calibration_frequency = updateData.calibration_frequency,
                !.last_calibration_date = updateData.last_calibration_date,
                !.last_modified_by = updateData.last_modified_by]

\* PUT /api/gauges/:id
TsUpdateGauge ==
    /\ deployment = "ts"
    /\ requests < MaxRequests
    /\ \E gaugeId \in GaugeIds, body \in Bodies :
        LET route == "PUT /api/gauges/:id"
            existingProfile == getGaugeProfileById(gauges, gaugeId)
            updatedProfile == UpdatedRow(existingProfile, body)
            new == AlertRows(
                       AlertManager_processGaugeUpdate(existingProfile, updatedProfile,
                                                       stored, now),
                       gaugeId, nextId + 1, now)
        IN  /\ IF existingProfile = NoRow
               THEN Rejected(route, 404, gaugeId)
               ELSE IF ~ExcelProcessor_validateGaugeProfile(updatedProfile)
               THEN Rejected(route, 400, gaugeId)
               ELSE /\ gauges' = (gauges \ {existingProfile}) \cup {updatedProfile}
                    /\ audit' = audit \cup
                           {AuditRow(nextId + 1, gaugeId, "update",
                                     body.last_modified_by, now)}
                    /\ alertStore' = alertStore \cup new
                    /\ nextId' = nextId + 1 + Cardinality(new)
                    /\ Answer(UpdateResponse(route, 200, gaugeId, existingProfile,
                                             {a.id : a \in new}, body.gauge_id))
                    /\ UNCHANGED stored
    /\ UNCHANGED <<deployment, harnessVars, repoVars, wsVars>>

\* Database.deleteGaugeProfile: DELETE FROM gauge_profiles WHERE gauge_id = ?
Database_deleteGaugeProfile(rows, gaugeId) == {r \in rows : r.gauge_id # gaugeId}

\* DELETE /api/gauges/:id
TsDeleteGauge ==
    /\ deployment = "ts"
    /\ requests < MaxRequests
    /\ \E gaugeId \in GaugeIds, user \in Users :
        LET route == "DELETE /api/gauges/:id"
            existingProfile == getGaugeProfileById(gauges, gaugeId)
        IN  IF existingProfile = NoRow
            THEN Rejected(route, 404, gaugeId)
            ELSE /\ gauges' = Database_deleteGaugeProfile(gauges, gaugeId)
                 /\ audit' = audit \cup {AuditRow(nextId + 1, gaugeId, "delete", user, now)}
                 /\ nextId' = nextId + 1
                 /\ Answer(Response(route, 200, gaugeId, existingProfile, {}))
                 /\ UNCHANGED <<alertStore, stored>>
    /\ UNCHANGED <<deployment, harnessVars, repoVars, wsVars>>

\* POST /api/gauges/:id/recalculate
TsRecalculate ==
    /\ deployment = "ts"
    /\ requests < MaxRequests
    /\ \E gaugeId \in GaugeIds :
        LET route == "POST /api/gauges/:id/recalculate"
            profile_ == getGaugeProfileById(gauges, gaugeId)
            new == AlertRows(
                       WithMessage(AlertManager_generateAlertsForGauge(profile_, stored, now),
                                   "level"),
                       gaugeId, nextId, now)
        IN  IF profile_ = NoRow
            THEN Rejected(route, 404, gaugeId)
            ELSE /\ alertStore' = alertStore \cup new
                 /\ nextId' = nextId + Cardinality(new)
                 /\ Answer(Response(route, 200, gaugeId, profile_, {a.id : a \in new}))
                 /\ UNCHANGED <<gauges, audit, stored>>
    /\ UNCHANGED <<deployment, harnessVars, repoVars, wsVars>>

\* Database.acknowledgeAlert: UPDATE alerts SET acknowledged = 1 WHERE id = ?
Database_acknowledgeAlert(rows, alertId) ==
    {IF a.id = alertId THEN [a EXCEPT !.acknowledged = TRUE] ELSE a : a \in rows}

\* POST /api/alerts/:id/acknowledge
TsAcknowledgeAlert ==
    /\ deployment = "ts"
    /\ requests < MaxRequests
    /\ \E alertId \in 1..nextId :
        /\ alertStore' = Database_acknowledgeAlert(alertStore, alertId)
        /\ Answer(Response("POST /api/alerts/:id/acknowledge", 200, "alert", NoRow, {}))
    /\ UNCHANGED <<gauges, audit, stored, nextId>>
    /\ UNCHANGED <<deployment, harnessVars, repoVars, wsVars>>

\* PUT /api/admin/thresholds: the body is written as it comes
TsUpdateThresholds ==
    /\ deployment = "ts"
    /\ requests < MaxRequests
    /\ \E body \in ThresholdBodies :
        /\ stored' = body
        /\ Answer(Response("PUT /api/admin/thresholds", 200, "thresholds", NoRow, {}))
    /\ UNCHANGED <<gauges, alertStore, audit, nextId>>
    /\ UNCHANGED <<deployment, harnessVars, repoVars, wsVars>>

\* POST /api/admin/reset
TsReset ==
    /\ deployment = "ts"
    /\ requests < MaxRequests
    /\ gauges' = {}
    /\ alertStore' = {}
    /\ Answer(Response("POST /api/admin/reset", 200, "all", NoRow, {}))
    /\ UNCHANGED <<audit, stored, nextId>>
    /\ UNCHANGED <<deployment, harnessVars, repoVars, wsVars>>

\* ExcelProcessor.convertRowToGaugeProfile accepts the row (it throws otherwise)
ExcelProcessor_rowAccepted(row) ==
    /\ row.gauge_id # ""
    /\ ~(IsNaN(row.calibration_frequency) \/ NumLte(row.calibration_frequency, Num(0)))
    /\ ~(IsNaN(row.produced_quantity) \/ NumLt(row.produced_quantity, Num(0)))
    /\ ~(IsNaN(row.max_capacity) \/ NumLte(row.max_capacity, Num(0)))
    /\ ~NumGt(row.produced_quantity, row.max_capacity)

\* ExcelProcessor.parseExcelData(buffer).profiles: the accepted rows, in order
ExcelProcessor_parseExcelData(sheet) == SelectSeq(sheet, ExcelProcessor_rowAccepted)

\* the uploaded sheets: every single row, two rows for two gauges, two rows
\* for the same gauge, and a row the parser refuses before one it accepts
Sheets ==
    {<<row>> : row \in Bodies}
    \cup {<<GaugeRow("G1", <<Num(20), Num(14)>>, 12, BodyDate, "alice"),
            GaugeRow("G2", <<Num(20), Num(17)>>, 12, BodyDate, "alice")>>,
          <<GaugeRow("G1", <<Num(20), Num(14)>>, 12, BodyDate, "alice"),
            GaugeRow("G1", <<Num(20), Num(18)>>, 12, BodyDate, "alice")>>,
          <<GaugeRow("G2", <<Num(20), Num(21)>>, 12, BodyDate, "alice"),
            GaugeRow("G1", <<Num(20), Num(14)>>, 12, BodyDate, "alice")>>}

\* the stores a handler works on while it loops over the rows of a sheet
Stores(g, a, l, n) == [gauges |-> g, alertStore |-> a, audit |-> l, nextId |-> n]

\* one pass of the loop of POST /api/upload/import for profile number i
TsImportRow(st, p, replaceExisting, importUser, t, today) ==
    LET existingProfile == getGaugeProfileById(st.gauges, p.gauge_id)
        updatedProfile == UpdatedRow(existingProfile,
                                     [p EXCEPT !.last_modified_by = importUser])
        created == [p EXCEPT !.last_modified_by = importUser]
        crossing == AlertRows(
                        AlertManager_processGaugeUpdate(existingProfile, updatedProfile, t, today),
                        p.gauge_id, st.nextId + 1, today)
        level == AlertRows(
                     WithMessage(AlertManager_generateAlertsForGauge(created, t, today), "level"),
                     p.gauge_id, st.nextId + 1, today)
    IN  IF existingProfile # NoRow
        THEN IF replaceExisting
             THEN Stores((st.gauges \ {existingProfile}) \cup {updatedProfile},
                         st.alertStore \cup crossing,
                         st.audit \cup {AuditRow(st.nextId + 1, p.gauge_id, "update",
                                                 importUser, today)},
                         st.nextId + 1 + Cardinality(crossing))
             ELSE st
        ELSE Stores(st.gauges \cup {created},
                    st.alertStore \cup level,
                    st.audit \cup {AuditRow(st.nextId + 1, p.gauge_id, "create",
                                            importUser, today)},
                    st.nextId + 1 + Cardinality(level))

RECURSIVE TsImportRows(_, _, _, _, _, _)
TsImportRows(st, profiles, replaceExisting, importUser, t, today) ==
    IF profiles = <<>> THEN st
    ELSE TsImportRows(TsImportRow(st, Head(profiles), replaceExisting, importUser, t, today),
                      Tail(profiles), replaceExisting, importUser, t, today)

\* parseResult.errors: one message for every row the parser refused
ParseErrors(sheet) ==
    [i \in 1..(Len(sheet) - Len(ExcelProcessor_parseExcelData(sheet))) |-> "parse"]

\* importStats before the loop
ImportStats(sheet) ==
    [total_rows |-> Len(ExcelProcessor_parseExcelData(sheet)),
     inserted |-> 0, updated |-> 0, skipped |-> 0, errors |-> ParseErrors(sheet)]

\* an import loop whose last else branch is missing: an existing gauge with
\* neither option set is passed over without a message
TsImportCount_duplicateSilent(stats, st, p, replaceExisting, skipDuplicates) ==
    IF getGaugeProfileById(st.gauges, p.gauge_id) # NoRow
    THEN IF replaceExisting THEN [stats EXCEPT !.updated = @ + 1]
         ELSE IF skipDuplicates THEN [stats EXCEPT !.skipped = @ + 1]
         ELSE stats
    ELSE [stats EXCEPT !.inserted = @ + 1]

\* what one pass of the loop of POST /api/upload/import adds to importStats
TsImportCount(stats, st, p, replaceExisting, skipDuplicates) ==
    IF getGaugeProfileById(st.gauges, p.gauge_id) # NoRow
    THEN IF replaceExisting THEN [stats EXCEPT !.updated = @ + 1]
         ELSE IF skipDuplicates THEN [stats EXCEPT !.skipped = @ + 1]
         ELSE [stats EXCEPT !.errors = Append(@, "exists")]
    ELSE [stats EXCEPT !.inserted = @ + 1]

\* importStats after the loop over the parsed profiles
RECURSIVE TsImportStats(_, _, _, _, _, _, _, _)
TsImportStats(stats, st, profiles, replaceExisting, skipDuplicates, importUser, t, today) ==
    IF profiles = <<>> THEN stats
    ELSE TsImportStats(
             TsImportCount(stats, st, Head(profiles), replaceExisting, skipDuplicates),
             TsImportRow(st, Head(profiles), replaceExisting, importUser, t, today),
             Tail(profiles), replaceExisting, skipDuplicates, importUser, t, today)

\* what an import answered, with the options of the request and importStats
ImportResponse(route, code, target, old, emitted, options, stats) ==
    [route |-> route, code |-> code, target |-> target, old |-> old,
     emitted |-> emitted, options |-> options, stats |-> stats]

\* POST /api/upload/import
TsImport ==
    /\ deployment = "ts"
    /\ requests < MaxRequests
    /\ \E sheet \in Sheets, replaceExisting \in BOOLEAN, skipDuplicates \in BOOLEAN :
        LET route == "POST /api/upload/import"
            profiles == ExcelProcessor_parseExcelData(sheet)
            before == Stores(gauges, alertStore, audit, nextId)
            st == TsImportRows(before, profiles,
                               replaceExisting, "Excel Import", stored, now)
            importStats == TsImportStats(ImportStats(sheet), before, profiles,
                                         replaceExisting, skipDuplicates,
                                         "Excel Import", stored, now)
        IN  IF profiles = <<>>
            THEN Rejected(route, 400, "sheet")
            ELSE /\ gauges' = st.gauges
                 /\ alertStore' = st.alertStore
                 /\ audit' = st.audit
                 /\ nextId' = st.nextId
                 /\ Answer(ImportResponse(route, 200, "sheet", NoRow,
                                          {a.id : a \in st.alertStore \ alertStore},
                                          [replace_existing |-> replaceExisting,
                                           skip_duplicates |-> skipDuplicates],
                                          importStats))
                 /\ UNCHANGED stored
    /\ UNCHANGED <<deployment, harnessVars, repoVars, wsVars>>

\* one pass of the loop of POST /api/upload/bulk-update
TsBulkUpdateRow(st, p, updateUser, t, today) ==
    LET existingProfile == getGaugeProfileById(st.gauges, p.gauge_id)
        updatedProfile == UpdatedRow(existingProfile,
                                     [p EXCEPT !.last_modified_by = updateUser])
        crossing == AlertRows(
                        AlertManager_processGaugeUpdate(existingProfile, updatedProfile, t, today),
                        p.gauge_id, st.nextId + 1, today)
    IN  IF existingProfile # NoRow
        THEN Stores((st.gauges \ {existingProfile}) \cup {updatedProfile},
                    st.alertStore \cup crossing,
                    st.audit \cup {AuditRow(st.nextId + 1, p.gauge_id, "update",
                                            updateUser, today)},
                    st.nextId + 1 + Cardinality(crossing))
        ELSE st

RECURSIVE TsBulkUpdateRows(_, _, _, _, _)
TsBulkUpdateRows(st, profiles, updateUser, t, today) ==
    IF profiles = <<>> THEN st
    ELSE TsBulkUpdateRows(TsBulkUpdateRow(st, Head(profiles), updateUser, t, today),
                          Tail(profiles), updateUser, t, today)

\* POST /api/upload/bulk-update
TsBulkUpdate ==
    /\ deployment = "ts"
    /\ requests < MaxRequests
    /\ \E sheet \in Sheets :
        LET route == "POST /api/upload/bulk-update"
            profiles == ExcelProcessor_parseExcelData(sheet)
            st == TsBulkUpdateRows(Stores(gauges, alertStore, audit, nextId), profiles,
                                   "Bulk Update", stored, now)
        IN  IF profiles = <<>>
            THEN Rejected(route, 400, "sheet")
            ELSE /\ gauges' = st.gauges
                 /\ alertStore' = st.alertStore
                 /\ audit' = st.audit
                 /\ nextId' = st.nextId
                 /\ Answer(Response(route, 200, "sheet", NoRow,
                                    {a.id : a \in st.alertStore \ alertStore}))
                 /\ UNCHANGED stored
    /\ UNCHANGED <<deployment, harnessVars, repoVars, wsVars>>

----------------------------------------------------------------------------
(* Deployment "js": the plain JavaScript server over the same Database     *)

\* one pass of the loop of POST /api/upload/import: an existing gauge is
\* skipped
JsImportRow(st, p, t, today) ==
    LET existing == getGaugeProfileById(st.gauges, p.gauge_id)
        created == [p EXCEPT !.last_modified_by = "Excel Import"]
        level == AlertRows(
                     WithMessage(AlertManager_generateAlertsForGauge(created, t, today), "level"),
                     p.gauge_id, st.nextId + 1, today)
    IN  IF existing # NoRow
        THEN st
        ELSE Stores(st.gauges \cup {created},
                    st.alertStore \cup level,
                    st.audit \cup {AuditRow(st.nextId + 1, p.gauge_id, "create",
                                            "Excel Import", today)},
                    st.nextId + 1 + Cardinality(level))

RECURSIVE JsImportRows(_, _, _, _)
JsImportRows(st, profiles, t, today) ==
    IF profiles = <<>> THEN st
    ELSE JsImportRows(JsImportRow(st, Head(profiles), t, today), Tail(profiles), t, today)

\* app.post('/api/upload/import')
JsImport ==
    /\ deployment = "js"
    /\ requests < MaxRequests
    /\ \E sheet \in Sheets :
        LET route == "POST /api/upload/import"
            profiles == ExcelProcessor_parseExcelData(sheet)
            st == JsImportRows(Stores(gauges, alertStore, audit, nextId), profiles,
                               stored, now)
        IN  IF profiles = <<>>
            THEN Rejected(route, 400, "sheet")
            ELSE /\ gauges' = st.gauges
                 /\ alertStore' = st.alertStore
                 /\ audit' = st.audit
                 /\ nextId' = st.nextId
                 /\ Answer(Response(route, 200, "sheet", NoRow,
                                    {a.id : a \in st.alertStore \ alertStore}))
                 /\ UNCHANGED stored
    /\ UNCHANGED <<deployment, harnessVars, repoVars, wsVars>>

\* app.post('/api/gauges'): the body is stored as it comes; the INSERT fails
\* on a gauge_id already present (UNIQUE)
JsCreateGauge ==
    /\ deployment = "js"
    /\ requests < MaxRequests
    /\ \E body \in Bodies :
        LET route == "POST /api/gauges"
            new == AlertRows(
                       WithMessage(AlertManager_generateAlertsForGauge(body, stored, now),
                                   "level"),
                       body.gauge_id, nextId + 1, now)
        IN  IF getGaugeProfileById(gauges, body.gauge_id) # NoRow
            THEN Rejected(route, 500, body.gauge_id)
            ELSE /\ gauges' = gauges \cup {body}
                 /\ audit' = audit \cup
                        {AuditRow(nextId + 1, body.gauge_id, "create",
                                  body.last_modified_by, now)}
                 /\ alertStore' = alertStore \cup new
                 /\ nextId' = nextId + 1 + Cardinality(new)
                 /\ Answer(Response(route, 200, body.gauge_id, NoRow,
                                    {a.id : a \in new}))
                 /\ UNCHANGED stored
    /\ UNCHANGED <<deployment, harnessVars, repoVars, wsVars>>

\* app.put('/api/gauges/:id'): the body is written as it comes; the loop
\* that removes the old alerts calls database.deleteAlert, which Database
\* does not have, so the handler throws at the first alert of the gauge
\* and answers 500 with the row and the audit entry already written
JsUpdateGauge ==
    /\ deployment = "js"
    /\ requests < MaxRequests
    /\ \E gaugeId \in GaugeIds, body \in Bodies :
        LET route == "PUT /api/gauges/:id"
            existing == getGaugeProfileById(gauges, gaugeId)
            updated == UpdatedRow(existing, body)
            new == AlertRows(
                       WithMessage(AlertManager_generateAlertsForGauge(updated, stored, now),
                                   "level"),
                       gaugeId, nextId + 1, now)
            hasOldAlerts == \E a \in alertStore : a.gauge_id = gaugeId
        IN  /\ IF existing = NoRow
               THEN Rejected(route, 404, gaugeId)
               ELSE /\ gauges' = (gauges \ {existing}) \cup {updated}
                    /\ audit' = audit \cup
                           {AuditRow(nextId + 1, gaugeId, "update",
                                     body.last_modified_by, now)}
                    /\ IF hasOldAlerts
                       THEN /\ nextId' = nextId + 1
                            /\ Answer(UpdateResponse(route, 500, gaugeId, existing, {},
                                                     body.gauge_id))
                            /\ UNCHANGED alertStore
                       ELSE /\ alertStore' = alertStore \cup new
                            /\ nextId' = nextId + 1 + Cardinality(new)
                            /\ Answer(UpdateResponse(route, 200, gaugeId, existing,
                                                     {a.id : a \in new}, body.gauge_id))
                    /\ UNCHANGED stored
    /\ UNCHANGED <<deployment, harnessVars, repoVars, wsVars>>

\* app.delete('/api/gauges/:id'): the loop that removes the alerts of the
\* gauge calls database.deleteAlert and throws at the first of them
JsDeleteGauge ==
    /\ deployment = "js"
    /\ requests < MaxRequests
    /\ \E gaugeId \in GaugeIds :
        LET route == "DELETE /api/gauges/:id"
            existing == getGaugeProfileById(gauges, gaugeId)
            hasAlerts == \E a \in alertStore : a.gauge_id = gaugeId
        IN  IF existing = NoRow
            THEN Rejected(route, 404, gaugeId)
            ELSE /\ gauges' = Database_deleteGaugeProfile(gauges, gaugeId)
                 /\ audit' = audit \cup {AuditRow(nextId + 1, gaugeId, "delete", "System", now)}
                 /\ nextId' = nextId + 1
                 /\ Answer(Response(route, IF hasAlerts THEN 500 ELSE 200, gaugeId,
                                    existing, {}))
                 /\ UNCHANGED <<alertStore, stored>>
    /\ UNCHANGED <<deployment, harnessVars, repoVars, wsVars>>

\* app.put('/api/alerts/:id/acknowledge')
JsAcknowledgeAlert ==
    /\ deployment = "js"
    /\ requests < MaxRequests
    /\ \E alertId \in 1..nextId :
        /\ alertStore' = Database_acknowledgeAlert(alertStore, alertId)
        /\ Answer(Response("PUT /api/alerts/:id/acknowledge", 200, "alert", NoRow, {}))
    /\ UNCHANGED <<gauges, audit, stored, nextId>>
    /\ UNCHANGED <<deployment, harnessVars, repoVars, wsVars>>

\* app.put('/api/admin/thresholds')
JsUpdateThresholds ==
    /\ deployment = "js"
    /\ requests < MaxRequests
    /\ \E body \in ThresholdBodies :
        /\ stored' = body
        /\ Answer(Response("PUT /api/admin/thresholds", 200, "thresholds", NoRow, {}))
    /\ UNCHANGED <<gauges, alertStore, audit, nextId>>
    /\ UNCHANGED <<deployment, harnessVars, repoVars, wsVars>>

\* app.post('/api/admin/reset')
JsReset ==
    /\ deployment = "js"
    /\ requests < MaxRequests
    /\ gauges' = {}
    /\ alertStore' = {}
    /\ Answer(Response("POST /api/admin/reset", 200, "all", NoRow, {}))
    /\ UNCHANGED <<audit, stored, nextId>>
    /\ UNCHANGED <<deployment, harnessVars, repoVars, wsVars>>


----------------------------------------------------------------------------
(* Deployment "mongo": the Mongoose repositories, ExcelService,            *)
(* AlertService and the admin and alert routes.  `stored` holds the        *)
(* CapacityThresholds document, in hundredths; an alert document keeps     *)
(* alert_id in id and alert_type in type, and has no acknowledged flag.    *)
(* The Gauge schema and the routes that call ExcelService are not part of  *)
(* the sources: whether the schema lets a non-positive max_capacity        *)
(* through is left open, both ways.                                        *)

\* a gauge document: the source fields and the derived ones
GaugeDoc(row, remaining, next, st) ==
    [gauge_id |-> row.gauge_id, max_capacity |-> row.max_capacity,
     produced_quantity |-> row.produced_quantity,
     calibration_frequency |-> row.calibration_frequency,
     last_calibration_date |-> row.last_calibration_date,
     last_modified_by |-> row.last_modified_by,
     remaining_capacity |-> remaining, next_calibration_date |-> next,
     status |-> st]

\* no document (null)
NoDoc == GaugeDoc(NoRow, Num(0), Undefined, "none")

\* GaugeRepository.findById
GaugeRepository_findById(gaugeDocs, gaugeId) ==
    IF \E g \in gaugeDocs : g.gauge_id = gaugeId
    THEN CHOOSE g \in gaugeDocs : g.gauge_id = gaugeId
    ELSE NoDoc

\* ExcelService.validateRow(row) returns null
ExcelService_validateRow(row) ==
    /\ row.gauge_id # ""
    /\ ~(IsNaN(row.calibration_frequency) \/ NumLt(row.calibration_frequency, Num(0)))
    /\ ~(IsNaN(row.produced_quantity) \/ NumLt(row.produced_quantity, Num(0)))
    /\ ~(IsNaN(row.max_capacity) \/ NumLt(row.max_capacity, Num(0)))
    /\ row.last_calibration_date # Undefined

\* CapacityService.updateCalculatedFields(mapRowToGauge(row, userId)):
\* mapRowToGauge presets remaining_capacity 0, next_calibration_date now and
\* status 'safe'; the status is computed with the built-in thresholds
ExcelService_calculatedData(gaugeData, today) ==
    LET hasCapacity == ~Falsy(gaugeData.max_capacity)
        remaining == IF hasCapacity
                     THEN NumSub(gaugeData.max_capacity, gaugeData.produced_quantity)
                     ELSE Num(0)
        next == IF ~Falsy(gaugeData.calibration_frequency)
                THEN CapacityService_calculateNextCalibrationDate(
                         gaugeData.last_calibration_date, gaugeData.calibration_frequency)
                ELSE today
        calculated == GaugeDoc(gaugeData, remaining, next, "safe")
    IN  IF hasCapacity
        THEN [calculated EXCEPT
                 !.status = CapacityService_determineGaugeStatus(
                                calculated, DefaultServiceThresholds, today)]
        ELSE calculated

\* new Gauge(doc).save() and findOneAndUpdate with runValidators go through:
\* always for a document within range, for one out of range when the
\* schema is lenient
Gauge_validate(doc, lenient) ==
    lenient \/ (NumGt(doc.max_capacity, Num(0)) /\ NumGt(doc.calibration_frequency, Num(0)))

\* one pass of the loop of ExcelService.importFromExcel
ExcelService_importRow(st, row, userId, lenient, today) ==
    LET gaugeData == [row EXCEPT !.last_modified_by = userId]
        existingGauge == GaugeRepository_findById(st.gauges, row.gauge_id)
        calculatedData == ExcelService_calculatedData(gaugeData, today)
        entry == AuditRow(st.nextId + 1, row.gauge_id, "import", userId, today)
    IN  IF ~ExcelService_validateRow(row) \/ ~Gauge_validate(calculatedData, lenient)
        THEN st
        ELSE Stores((st.gauges \ {existingGauge}) \cup {calculatedData},
                    st.alertStore, st.audit \cup {entry}, st.nextId + 1)

RECURSIVE ExcelService_importRows(_, _, _, _, _)
ExcelService_importRows(st, rows, userId, lenient, today) ==
    IF rows = <<>> THEN st
    ELSE ExcelService_importRows(
             ExcelService_importRow(st, Head(rows), userId, lenient, today),
             Tail(rows), userId, lenient, today)

\* the sheets given to ExcelService: rows with a calibration frequency
MongoSheets ==
    {sheet \in Sheets : \A i \in 1..Len(sheet) : sheet[i].calibration_frequency # Num(0)}

\* ExcelService.importFromExcel(buffer, userId)
MongoImport ==
    /\ deployment = "mongo"
    /\ requests < MaxRequests
    /\ \E sheet \in MongoSheets, lenient \in BOOLEAN :
        LET st == ExcelService_importRows(Stores(gauges, alertStore, audit, nextId),
                                          sheet, "system", lenient, now)
        IN  /\ gauges' = st.gauges
            /\ audit' = st.audit
            /\ nextId' = st.nextId
            /\ Answer(Response("ExcelService.importFromExcel",
                               IF st.nextId = nextId THEN 400 ELSE 200,
                               "sheet", NoRow, {}))
            /\ UNCHANGED <<alertStore, stored>>
    /\ UNCHANGED <<deployment, harnessVars, repoVars, wsVars>>

\* a generateAlertsForGauge that does not clear the alerts of the gauge first
AlertService_regenerate_keepsOld(st, gauge, today) ==
    LET new == AlertRows(WithMessage(AlertService_generateAlertsForGauge(gauge), "status"),
                         gauge.gauge_id, st.nextId, today)
    IN  Stores(st.gauges, st.alertStore \cup new, st.audit, st.nextId + Cardinality(new))

\* AlertService.generateAlertsForGauge(gauge) on the alert collection: the
\* alerts of the gauge are deleted, then one is created by its status
AlertService_regenerate(st, gauge, today) ==
    LET kept == {a \in st.alertStore : a.gauge_id # gauge.gauge_id}
        new == AlertRows(WithMessage(AlertService_generateAlertsForGauge(gauge), "status"),
                         gauge.gauge_id, st.nextId, today)
    IN  Stores(st.gauges, kept \cup new, st.audit, st.nextId + Cardinality(new))

\* the loop of PUT /api/admin/thresholds over the gauges
RECURSIVE RecalculateGauges(_, _, _, _)
RecalculateGauges(st, todo, updatedThresholds, today) ==
    IF todo = {} THEN st
    ELSE LET gauge == CHOOSE g \in todo : TRUE
             newStatus == CapacityService_determineGaugeStatus(gauge, updatedThresholds, today)
             updated == [gauge EXCEPT !.status = newStatus]
             after == IF newStatus # gauge.status
                      THEN AlertService_regenerate(
                               [st EXCEPT !.gauges = (st.gauges \ {gauge}) \cup {updated}],
                               updated, today)
                      ELSE st
         IN  RecalculateGauges(after, todo \ {gauge}, updatedThresholds, today)

\* req.body of PUT /api/admin/thresholds, in hundredths; the last is out of 0..1
ServiceThresholdBodies ==
    {DefaultServiceThresholds,
     [calibration_required_threshold |-> 10, near_limit_threshold |-> 50,
      overdue_capacity_threshold |-> 0],
     [calibration_required_threshold |-> 10, near_limit_threshold |-> 150,
      overdue_capacity_threshold |-> 0]}

\* router.put('/thresholds')
MongoUpdateThresholds ==
    /\ deployment = "mongo"
    /\ requests < MaxRequests
    /\ \E body \in ServiceThresholdBodies :
        LET route == "PUT /api/admin/thresholds"
            inRange == \A k \in DOMAIN body : body[k] >= 0 /\ body[k] <= 100
            st == RecalculateGauges(Stores(gauges, alertStore, audit, nextId),
                                    gauges, body, now)
        IN  IF ~inRange
            THEN Rejected(route, 400, "thresholds")
            ELSE /\ stored' = body
                 /\ gauges' = st.gauges
                 /\ alertStore' = st.alertStore
                 /\ nextId' = st.nextId
                 /\ Answer(Response(route, 200, "thresholds", NoRow,
                                    {a.id : a \in st.alertStore \ alertStore}))
                 /\ UNCHANGED audit
    /\ UNCHANGED <<deployment, harnessVars, repoVars, wsVars>>

\* router.post('/thresholds/reset')
MongoResetThresholds ==
    /\ deployment = "mongo"
    /\ requests < MaxRequests
    /\ stored' = DefaultServiceThresholds
    /\ Answer(Response("POST /api/admin/thresholds/reset", 200, "thresholds", NoRow, {}))
    /\ UNCHANGED <<gauges, alertStore, audit, nextId>>
    /\ UNCHANGED <<deployment, harnessVars, repoVars, wsVars>>

\* AlertService.generateAlertsForAllGauges
RECURSIVE AlertService_generateAlertsForAllGauges(_, _, _)
AlertService_generateAlertsForAllGauges(st, todo, today) ==
    IF todo = {} THEN st
    ELSE LET gauge == CHOOSE g \in todo : TRUE
         IN  AlertService_generateAlertsForAllGauges(
                 AlertService_regenerate(st, gauge, today), todo \ {gauge}, today)

\* router.post('/regenerate-alerts')
MongoRegenerateAlerts ==
    /\ deployment = "mongo"
    /\ requests < MaxRequests
    /\ LET st == AlertService_generateAlertsForAllGauges(
                     Stores(gauges, {}, audit, nextId), gauges, now)
       IN  /\ alertStore' = st.alertStore
           /\ nextId' = st.nextId
           /\ Answer(Response("POST /api/admin/regenerate-alerts", 200, "all", NoRow,
                              {a.id : a \in st.alertStore}))
    /\ UNCHANGED <<gauges, audit, stored>>
    /\ UNCHANGED <<deployment, harnessVars, repoVars, wsVars>>

\* router.delete('/data/all')
MongoDeleteAll ==
    /\ deployment = "mongo"
    /\ requests < MaxRequests
    /\ \E confirmed \in BOOLEAN :
        LET route == "DELETE /api/admin/data/all"
        IN  IF ~confirmed
            THEN Rejected(route, 400, "all")
            ELSE /\ gauges' = {}
                 /\ alertStore' = {}
                 /\ audit' = {}
                 /\ Answer(Response(route, 200, "all", NoRow, {}))
                 /\ UNCHANGED <<stored, nextId>>
    /\ UNCHANGED <<deployment, harnessVars, repoVars, wsVars>>

\* router.post('/') of the alert routes
MongoCreateAlert ==
    /\ deployment = "mongo"
    /\ requests < MaxRequests
    /\ \E gaugeId \in GaugeIds, message \in {"", "manual"} :
        LET route == "POST /api/alerts"
            new == AlertRows(<<NewAlert("capacity_exhaustion", "warning", message)>>,
                             gaugeId, nextId, now)
        IN  IF message = ""
            THEN Rejected(route, 400, gaugeId)
            ELSE /\ alertStore' = alertStore \cup new
                 /\ nextId' = nextId + 1
                 /\ Answer(Response(route, 201, gaugeId, NoRow, {a.id : a \in new}))
                 /\ UNCHANGED <<gauges, audit, stored>>
    /\ UNCHANGED <<deployment, harnessVars, repoVars, wsVars>>

\* slip: the acknowledgment also rewrites the severity
acknowledge_downgrades(alertDocs, alertId, acknowledgedBy, today) ==
    {IF a.id = alertId
     THEN [a EXCEPT !.acknowledged_at = today, !.acknowledged_by = acknowledgedBy,
                    !.severity = "info"]
     ELSE a : a \in alertDocs}

\* AlertRepository.acknowledge(alertId, acknowledgedBy)
AlertRepository_acknowledge(alertDocs, alertId, acknowledgedBy, today) ==
    {IF a.id = alertId
     THEN [a EXCEPT !.acknowledged_at = today, !.acknowledged_by = acknowledgedBy]
     ELSE a : a \in alertDocs}

\* router.put('/:id/acknowledge') of the alert routes
MongoAcknowledgeAlert ==
    /\ deployment = "mongo"
    /\ requests < MaxRequests
    /\ \E alertId \in 1..nextId, acknowledged_by \in Users \cup {""} :
        LET route == "PUT /api/alerts/:id/acknowledge"
        IN  IF acknowledged_by = ""
            THEN Rejected(route, 400, "alert")
            ELSE IF ~\E a \in alertStore : a.id = alertId
            THEN Rejected(route, 404, "alert")
            ELSE /\ alertStore' = AlertRepository_acknowledge(alertStore, alertId,
                                                             acknowledged_by, now)
                 /\ Answer(Response(route, 200, "alert", NoRow, {}))
                 /\ UNCHANGED <<gauges, audit, stored, nextId>>
    /\ UNCHANGED <<deployment, harnessVars, repoVars, wsVars>>

\* router.delete('/gauge/:gaugeId') of the alert routes
MongoDeleteAlertsByGauge ==
    /\ deployment = "mongo"
    /\ requests < MaxRequests
    /\ \E gaugeId \in GaugeIds :
        /\ alertStore' = {a \in alertStore : a.gauge_id # gaugeId}
        /\ Answer(Response("DELETE /api/alerts/gauge/:gaugeId", 200, gaugeId, NoRow, {}))
    /\ UNCHANGED <<gauges, audit, stored, nextId>>
    /\ UNCHANGED <<deployment, harnessVars, repoVars, wsVars>>


\* a deployment starts with empty tables and collections and the seeded
\* thresholds
SystemInit ==
    /\ profile = CHOOSE p \in Profiles : TRUE
    /\ thresholds = CHOOSE t \in ManagerThresholds : TRUE
    /\ svcThresholds = CHOOSE t \in ServiceThresholds : TRUE
    /\ now = Today
    /\ op = "none"
    /\ status = "none"
    /\ alerts = <<>>
    /\ error = "none"
    /\ prevStatus = "none"
    /\ ticked = FALSE
    /\ nextDate = Undefined
    /\ deployment \in {"ts", "js", "mongo"}
    /\ gauges = {}
    /\ alertStore = {}
    /\ audit = {}
    /\ stored = IF deployment = "mongo" THEN DefaultServiceThresholds ELSE SeededThresholds
    /\ nextId = 0
    /\ last = Response("none", 0, "none", NoRow, {})
    /\ requests = 0
    /\ RepoIdle
    /\ WsIdle

SystemNext ==
    \/ TsCreateGauge
    \/ TsUpdateGauge
    \/ TsDeleteGauge
    \/ TsRecalculate
    \/ TsAcknowledgeAlert
    \/ TsUpdateThresholds
    \/ TsReset
    \/ TsImport
    \/ TsBulkUpdate
    \/ JsImport
    \/ JsCreateGauge
    \/ JsUpdateGauge
    \/ JsDeleteGauge
    \/ JsAcknowledgeAlert
    \/ JsUpdateThresholds
    \/ JsReset
    \/ MongoImport
    \/ MongoUpdateThresholds
    \/ MongoResetThresholds
    \/ MongoRegenerateAlerts
    \/ MongoDeleteAll
    \/ MongoCreateAlert
    \/ MongoAcknowledgeAlert
    \/ MongoDeleteAlertsByGauge

SystemSpec == SystemInit /\ [][SystemNext]_vars

----------------------------------------------------------------------------
(* CapacityThresholdsRepository under concurrent calls.  Every await on    *)
(* the collection is one step; a call runs from one await to the next      *)
(* without interruption.  A document takes the number of the call that     *)
(* created it as its _id.                                                  *)

MaxCalls == 3

Calls == 1..MaxCalls

CallKinds == {"getOrCreateDefault", "update", "reset"}

ThresholdsDoc(id, t) == [id |-> id, thresholds |-> t]

\* the thresholds the update calls carry
UpdateBody ==
    [calibration_required_threshold |-> 10, near_limit_threshold |-> 50,
     overdue_capacity_threshold |-> 0]

\* the calls have been issued on an empty collection, none has run yet
ThresholdsInit ==
    /\ profile = CHOOSE p \in Profiles : TRUE
    /\ thresholds = CHOOSE t \in ManagerThresholds : TRUE
    /\ svcThresholds = CHOOSE t \in ServiceThresholds : TRUE
    /\ now = Today
    /\ op = "none"
    /\ status = "none"
    /\ alerts = <<>>
    /\ error = "none"
    /\ prevStatus = "none"
    /\ ticked = FALSE
    /\ nextDate = Undefined
    /\ SystemIdle
    /\ WsIdle
    /\ docs = {}
    /\ pc \in [Calls -> [call : CallKinds, at : {"start"}]]
    /\ found = [c \in Calls |-> 0]

\* await this.get(): CapacityThresholds.findOne(), in getOrCreateDefault and update
RepoGet(c) ==
    /\ pc[c].call \in {"getOrCreateDefault", "update"}
    /\ pc[c].at = "start"
    /\ \/ docs = {} /\ found' = [found EXCEPT ![c] = 0]
       \/ \E d \in docs : found' = [found EXCEPT ![c] = d.id]
    /\ pc' = [pc EXCEPT ![c].at = "read"]
    /\ UNCHANGED <<docs, harnessVars, systemVars, wsVars>>

\* the rest of getOrCreateDefault: return existing, or await createDefault
RepoCreateDefault(c) ==
    /\ pc[c].call = "getOrCreateDefault"
    /\ pc[c].at = "read"
    /\ docs' = IF found[c] # 0 THEN docs
               ELSE docs \cup {ThresholdsDoc(c, DefaultServiceThresholds)}
    /\ pc' = [pc EXCEPT ![c].at = "done"]
    /\ UNCHANGED <<found, harnessVars, systemVars, wsVars>>

\* the rest of update: findByIdAndUpdate(existing._id, ...), or save a new document
RepoUpdate(c) ==
    /\ pc[c].call = "update"
    /\ pc[c].at = "read"
    /\ docs' = IF found[c] # 0
               THEN {IF d.id = found[c] THEN [d EXCEPT !.thresholds = UpdateBody] ELSE d :
                        d \in docs}
               ELSE docs \cup {ThresholdsDoc(c, UpdateBody)}
    /\ pc' = [pc EXCEPT ![c].at = "done"]
    /\ UNCHANGED <<found, harnessVars, systemVars, wsVars>>

\* reset: await CapacityThresholds.deleteMany({})
RepoResetDelete(c) ==
    /\ pc[c].call = "reset"
    /\ pc[c].at = "start"
    /\ docs' = {}
    /\ pc' = [pc EXCEPT ![c].at = "deleted"]
    /\ UNCHANGED <<found, harnessVars, systemVars, wsVars>>

\* reset: await this.createDefault(updatedBy)
RepoResetCreate(c) ==
    /\ pc[c].call = "reset"
    /\ pc[c].at = "deleted"
    /\ docs' = docs \cup {ThresholdsDoc(c, DefaultServiceThresholds)}
    /\ pc' = [pc EXCEPT ![c].at = "done"]
    /\ UNCHANGED <<found, harnessVars, systemVars, wsVars>>

ThresholdsNext ==
    \E c \in Calls :
        \/ RepoGet(c)
        \/ RepoCreateDefault(c)
        \/ RepoUpdate(c)
        \/ RepoResetDelete(c)
        \/ RepoResetCreate(c)

ThresholdsSpec == ThresholdsInit /\ [][ThresholdsNext]_vars

----------------------------------------------------------------------------
(* Manual create and spreadsheet import racing on gauge_profiles.  Every   *)
(* await on the Database is one step: the SELECT by gauge_id, then the     *)
(* INSERT.  A request is the list of gauge_ids it brings: one for a        *)
(* manual create, one per parsed row for an import.  A row takes its       *)
(* primary key from the request and the row of the sheet.                  *)

\* no classifier call is under way
HarnessIdle ==
    /\ profile = CHOOSE p \in Profiles : TRUE
    /\ thresholds = CHOOSE t \in ManagerThresholds : TRUE
    /\ svcThresholds = CHOOSE t \in ServiceThresholds : TRUE
    /\ now = Today
    /\ op = "none"
    /\ status = "none"
    /\ alerts = <<>>
    /\ error = "none"
    /\ prevStatus = "none"
    /\ ticked = FALSE
    /\ nextDate = Undefined

\* slip: the table without UNIQUE on gauge_id
createGaugeProfile_notUnique(rows, row) == rows \cup {row}

\* Database.createGaugeProfile over gauge_id TEXT UNIQUE NOT NULL: the
\* INSERT is refused when a row with that gauge_id is there
Database_createGaugeProfile(rows, row) ==
    IF \E r \in rows : r.gauge_id = row.gauge_id THEN rows ELSE rows \cup {row}

TableRow(c, i, gaugeId) == [id |-> <<c, i>>, gauge_id |-> gaugeId]

\* a request: POST /api/gauges with one gauge_id, or POST /api/upload/import
\* with the gauge_ids of its parsed rows
CreateRequest(call, ids) ==
    [call |-> call, ids |-> ids, i |-> 1, at |-> "select", refused |-> 0]

CreateRequests ==
    {CreateRequest("create", <<g>>) : g \in GaugeIds}
    \cup {CreateRequest("import", ids) : ids \in {<<"G1">>, <<"G1", "G1">>, <<"G1", "G2">>}}

RaceInit ==
    /\ HarnessIdle
    /\ SystemIdle
    /\ WsIdle
    /\ docs = {}
    /\ pc \in [Calls -> CreateRequests]
    /\ found = [c \in Calls |-> FALSE]

\* the request goes on to its next row, or has answered
NextRow(r) ==
    IF r.call = "import" /\ r.i < Len(r.ids)
    THEN [r EXCEPT !.i = r.i + 1, !.at = "select"]
    ELSE [r EXCEPT !.at = "done"]

\* await db.getGaugeProfileById(gauge_id): an existing gauge ends a create
\* with 409 and ends the row of an import (updated, skipped or reported)
RaceSelect(c) ==
    /\ pc[c].at = "select"
    /\ LET existing == \E r \in docs : r.gauge_id = pc[c].ids[pc[c].i]
       IN  /\ found' = [found EXCEPT ![c] = existing]
           /\ pc' = [pc EXCEPT ![c] = IF existing THEN NextRow(pc[c])
                                      ELSE [pc[c] EXCEPT !.at = "insert"]]
    /\ UNCHANGED <<docs, harnessVars, systemVars, wsVars>>

\* await db.createGaugeProfile(profile): a refused INSERT rejects, which a
\* create answers with 500 and an import records as a row error
RaceInsert(c) ==
    /\ pc[c].at = "insert"
    /\ LET row == TableRow(c, pc[c].i, pc[c].ids[pc[c].i])
           after == Database_createGaugeProfile(docs, row)
       IN  /\ docs' = after
           /\ pc' = [pc EXCEPT ![c] =
                        NextRow([pc[c] EXCEPT
                                    !.refused = IF row \in after THEN @ ELSE @ + 1])]
    /\ UNCHANGED <<found, harnessVars, systemVars, wsVars>>

RaceNext == \E c \in Calls : RaceSelect(c) \/ RaceInsert(c)

RaceSpec == RaceInit /\ [][RaceNext]_vars

----------------------------------------------------------------------------
(* Concurrent AlertService.generateAlertsForGauge calls on the alert       *)
(* collection (bulk regeneration, threshold update): each call awaits the  *)
(* deleteMany of the gauge's alerts, then the save of the new alert, and   *)
(* other calls run between the two.  `docs` is the alert collection.       *)

\* the document AlertRepository.create saves for call c
AlertDoc(c, gaugeId, alert) ==
    [id |-> c, gauge_id |-> gaugeId, type |-> alert.type, severity |-> alert.severity]

\* the alerts in the collection before the calls: one per gauge at most
ExistingAlerts ==
    {AlertDoc(0, gaugeId, Alert("capacity_exhaustion", "warning")) : gaugeId \in GaugeIds}

\* a call of generateAlertsForGauge with the gauge its caller read
RegenerateCalls ==
    {[call |-> "generateAlertsForGauge",
      gauge |-> [gauge_id |-> gaugeId, status |-> s], at |-> "delete"] :
        gaugeId \in GaugeIds, s \in Statuses}

RegenerateInit ==
    /\ HarnessIdle
    /\ SystemIdle
    /\ WsIdle
    /\ docs \in SUBSET ExistingAlerts
    /\ pc \in [Calls -> RegenerateCalls]
    /\ found = [c \in Calls |-> FALSE]

\* await this.alertRepo.deleteByGaugeId(gauge.gauge_id)
RegenerateDelete(c) ==
    /\ pc[c].at = "delete"
    /\ docs' = {a \in docs : a.gauge_id # pc[c].gauge.gauge_id}
    /\ pc' = [pc EXCEPT ![c].at =
                 IF AlertService_generateAlertsForGauge(pc[c].gauge) = <<>>
                 THEN "done" ELSE "create"]
    /\ UNCHANGED <<found, harnessVars, systemVars, wsVars>>

\* alerts.push(await this.createAlert(...)) of the case of the status
RegenerateCreate(c) ==
    /\ pc[c].at = "create"
    /\ docs' = docs \cup {AlertDoc(c, pc[c].gauge.gauge_id,
                                    AlertService_generateAlertsForGauge(pc[c].gauge)[1])}
    /\ pc' = [pc EXCEPT ![c].at = "done"]
    /\ UNCHANGED <<found, harnessVars, systemVars, wsVars>>

RegenerateNext == \E c \in Calls : RegenerateDelete(c) \/ RegenerateCreate(c)

RegenerateSpec == RegenerateInit /\ [][RegenerateNext]_vars

----------------------------------------------------------------------------
(* The WebSocketManager of the TypeScript server: sockets connect, close   *)
(* and fail while the handlers broadcast and the process shuts down.       *)

\* the broadcast() calls of a run
MaxSends == 2

\* the messages sent through broadcast(), by their type
BroadcastTypes ==
    {"gauge_created", "gauge_updated", "alert_created", "heartbeat", "server_shutdown"}

\* server.ts: the manager is constructed and initialize(server) is called
\* before any event is handled
WsInit ==
    /\ HarnessIdle
    /\ SystemIdle
    /\ RepoIdle
    /\ wss = "running"
    /\ clients = {}
    /\ readyState = [c \in Sockets |-> "NONE"]
    /\ signalled = [c \in Sockets |-> "none"]
    /\ inbox = [c \in Sockets |-> <<>>]
    /\ sends = 0

\* a message as a socket receives it: its type and what it is about
Message(type, data) == [type |-> type, data |-> data]

\* sendToClient(ws, data): sent when the socket is OPEN
WebSocketManager_sendToClient(rs, box, c, data) ==
    IF rs[c] = "OPEN" THEN [box EXCEPT ![c] = Append(@, data)] ELSE box

\* a broadcast that does not look at readyState
broadcast_ignoresReadyState(set, rs, box, data, throwing) ==
    LET delivered == {c \in set : c \notin throwing}
    IN  [clients |-> delivered,
         inbox |-> [c \in Sockets |-> IF c \in delivered THEN Append(box[c], data)
                                       ELSE box[c]]]

\* broadcast(data): send to the OPEN clients; a client that is not OPEN, or
\* whose send throws, is deleted from the set
WebSocketManager_broadcast(set, rs, box, data, throwing) ==
    LET delivered == {c \in set : rs[c] = "OPEN" /\ c \notin throwing}
    IN  [clients |-> delivered,
         inbox |-> [c \in Sockets |-> IF c \in delivered THEN Append(box[c], data)
                                       ELSE box[c]]]

\* this.wss.on('connection'): the socket joins the set and is welcomed
WsConnection(c) ==
    /\ wss = "running"
    /\ readyState[c] = "NONE"
    /\ readyState' = [readyState EXCEPT ![c] = "OPEN"]
    /\ clients' = clients \cup {c}
    /\ inbox' = WebSocketManager_sendToClient(readyState', inbox, c,
                                                Message("connection", "none"))
    /\ UNCHANGED <<wss, signalled, sends, harnessVars, systemVars, repoVars>>

\* ws.on('message') with a ping: handleClientMessage answers pong
WsMessage(c) ==
    /\ readyState[c] = "OPEN"
    /\ \A i \in DOMAIN inbox[c] : inbox[c][i].type # "pong"
    /\ inbox' = WebSocketManager_sendToClient(readyState, inbox, c, Message("pong", "none"))
    /\ UNCHANGED <<wss, clients, readyState, signalled, sends,
                   harnessVars, systemVars, repoVars>>

\* the peer starts the closing handshake: the socket leaves OPEN before its
\* close event is emitted
WsClosing(c) ==
    /\ readyState[c] = "OPEN"
    /\ readyState' = [readyState EXCEPT ![c] = "CLOSING"]
    /\ UNCHANGED <<wss, clients, signalled, inbox, sends,
                   harnessVars, systemVars, repoVars>>

\* ws.on('close'): emitted once, when the socket is CLOSED
WsOnClose(c) ==
    /\ readyState[c] \in {"OPEN", "CLOSING"}
    /\ readyState' = [readyState EXCEPT ![c] = "CLOSED"]
    /\ signalled' = [signalled EXCEPT ![c] = "close"]
    /\ clients' = clients \ {c}
    /\ UNCHANGED <<wss, inbox, sends, harnessVars, systemVars, repoVars>>

\* ws.on('error'): the socket is as it was or on its way to CLOSED
WsOnError(c) ==
    /\ readyState[c] \in {"OPEN", "CLOSING"}
    /\ signalled[c] = "none"
    /\ \E rs \in {readyState[c], "CLOSING"} :
          readyState' = [readyState EXCEPT ![c] = rs]
    /\ signalled' = [signalled EXCEPT ![c] = "error"]
    /\ clients' = clients \ {c}
    /\ UNCHANGED <<wss, inbox, sends, harnessVars, systemVars, repoVars>>

\* broadcastGaugeUpdated, sendHeartbeat, ...: one call of broadcast(); it is
\* called by the handlers whether the server runs or not
WsBroadcast ==
    /\ sends < MaxSends
    /\ \E type \in {"gauge_updated", "heartbeat"}, throwing \in SUBSET clients :
          LET sent == WebSocketManager_broadcast(clients, readyState, inbox,
                                                 Message(type, "none"), throwing)
          IN  /\ clients' = sent.clients
              /\ inbox' = sent.inbox
    /\ sends' = sends + 1
    /\ UNCHANGED <<wss, readyState, signalled, harnessVars, systemVars, repoVars>>

\* cleanupClients()
WsCleanupClients ==
    /\ clients' = {c \in clients : readyState[c] = "OPEN"}
    /\ UNCHANGED <<wss, readyState, signalled, inbox, sends,
                   harnessVars, systemVars, repoVars>>

\* shutdown(): with a server, the clients are told, closed and forgotten;
\* without one (a second signal) nothing is done
WsShutdown ==
    /\ IF wss = "running"
       THEN \E throwing \in SUBSET clients :
              LET sent == WebSocketManager_broadcast(clients, readyState, inbox,
                                                     Message("server_shutdown", "none"),
                                                     throwing)
              IN  /\ inbox' = sent.inbox
                  /\ readyState' = [c \in Sockets |->
                                       IF c \in sent.clients /\ readyState[c] = "OPEN"
                                       THEN "CLOSING" ELSE readyState[c]]
                  /\ wss' = "null"
                  /\ clients' = {}
                  /\ sends' = sends + 1
       ELSE UNCHANGED <<wss, clients, readyState, inbox, sends>>
    /\ UNCHANGED <<signalled, harnessVars, systemVars, repoVars>>

WsNext ==
    \/ \E c \in Sockets : WsConnection(c) \/ WsMessage(c) \/ WsClosing(c)
                               \/ WsOnClose(c) \/ WsOnError(c)
    \/ WsBroadcast
    \/ WsCleanupClients
    \/ WsShutdown

WsSpec == WsInit /\ [][WsNext]_vars

----------------------------------------------------------------------------
(* POST /api/gauges and PUT /api/gauges/:id of the TypeScript server, one  *)
(* awaited database call or one broadcast at a time, with other requests   *)
(* running in between.  `pc` holds where each handler stands and its       *)
(* local variables.                                                        *)

\* the requests in flight
MaxHandlers == 2

Handlers == 1..MaxHandlers

\* req.body: in range, near the limit, near the limit and overdue, and
\* over-filled
HandlerBodies ==
    {GaugeRow("G1", <<Num(20), Num(14)>>, 12, BodyDate, "alice"),
     GaugeRow("G1", <<Num(20), Num(18)>>, 12, BodyDate, "alice"),
     GaugeRow("G1", <<Num(20), Num(18)>>, 1, BodyDate, "alice"),
     GaugeRow("G1", <<Num(20), Num(21)>>, 12, BodyDate, "alice")}

\* a request as its handler starts
HandlerCalls ==
    {[call |-> c, target |-> "G1", body |-> b, at |-> "select",
      existingProfile |-> NoRow, profile |-> NoRow, auditId |-> 0,
      alerts |-> <<>>, i |-> 0, code |-> 0] :
        c \in {"POST /api/gauges", "PUT /api/gauges/:id"}, b \in HandlerBodies}

HandlerInit ==
    /\ HarnessIdle
    /\ deployment = "ts"
    /\ gauges \in {{}, {GaugeRow("G1", <<Num(20), Num(14)>>, 12, BodyDate, "alice")}}
    /\ alertStore = {}
    /\ audit = {}
    /\ stored = SeededThresholds
    /\ nextId = 0
    /\ last = Response("none", 0, "none", NoRow, {})
    /\ requests = 0
    /\ docs = {}
    /\ pc \in [Handlers -> HandlerCalls]
    /\ found = [r \in Handlers |-> FALSE]
    /\ wss = "running"
    /\ clients = {"w1"}
    /\ readyState = [c \in Sockets |-> IF c = "w1" THEN "OPEN" ELSE "NONE"]
    /\ signalled = [c \in Sockets |-> "none"]
    /\ inbox = [c \in Sockets |-> IF c = "w1" THEN <<Message("connection", "none")>>
                                    ELSE <<>>]
    /\ sends = 0

\* the alerts a generator returned, with the ids they carry
AlertSeq(as, gaugeId, base, today) ==
    [i \in 1..Len(as) |->
        CHOOSE a \in AlertRows(as, gaugeId, base, today) : a.id = base + i]

\* a loop that announces an alert before it stores it
Following_broadcastFirst(at, i, n) ==
    CASE at = "thresholds" ->
            IF n = 0 THEN [at |-> "broadcast", i |-> 0]
            ELSE [at |-> "broadcastAlertCreated", i |-> 1]
      [] at = "broadcastAlertCreated" -> [at |-> "createAlert", i |-> i]
      [] at = "createAlert" ->
            IF i < n THEN [at |-> "broadcastAlertCreated", i |-> i + 1]
            ELSE [at |-> "broadcast", i |-> i]

\* for (const alert of alerts) { await db.createAlert(alert);
\* wsManager.broadcastAlertCreated(alert); } and what follows it: where the
\* handler goes next with alert number i of n
Following(at, i, n) ==
    CASE at = "thresholds" ->
            IF n = 0 THEN [at |-> "broadcast", i |-> 0]
            ELSE [at |-> "createAlert", i |-> 1]
      [] at = "createAlert" -> [at |-> "broadcastAlertCreated", i |-> i]
      [] at = "broadcastAlertCreated" ->
            IF i < n THEN [at |-> "createAlert", i |-> i + 1]
            ELSE [at |-> "broadcast", i |-> i]

Creates(r) == pc[r].call = "POST /api/gauges"

\* validateGaugeProfile and await db.getGaugeProfileById: 400, 409 and 404
HandlerSelect(r) ==
    /\ pc[r].at = "select"
    /\ LET existing == getGaugeProfileById(gauges, pc[r].target)
           code == IF Creates(r)
                   THEN IF ~ExcelProcessor_validateGaugeProfile(pc[r].body) THEN 400
                        ELSE IF existing # NoRow THEN 409 ELSE 0
                   ELSE IF existing = NoRow THEN 404
                        ELSE IF ~ExcelProcessor_validateGaugeProfile(
                                     UpdatedRow(existing, pc[r].body)) THEN 400
                        ELSE 0
       IN  pc' = [pc EXCEPT ![r].existingProfile = existing,
                            ![r].code = code,
                            ![r].at = IF code = 0 THEN "write" ELSE "done"]
    /\ UNCHANGED <<docs, found, harnessVars, systemVars, wsVars>>

\* await db.createGaugeProfile(newProfile), refused for a gauge_id that was
\* stored meanwhile (500); await db.updateGaugeProfile(gaugeId, updateData)
HandlerWrite(r) ==
    /\ pc[r].at = "write"
    /\ LET current == getGaugeProfileById(gauges, pc[r].target)
       IN  IF Creates(r)
           THEN /\ gauges' = Database_createGaugeProfile(gauges, pc[r].body)
                /\ pc' = IF current # NoRow
                         THEN [pc EXCEPT ![r].at = "done", ![r].code = 500]
                         ELSE [pc EXCEPT ![r].at = "audit", ![r].profile = pc[r].body]
           ELSE /\ gauges' = (gauges \ {current}) \cup {UpdatedRow(current, pc[r].body)}
                /\ pc' = [pc EXCEPT ![r].at = "reselect"]
    /\ UNCHANGED <<deployment, alertStore, audit, stored, nextId, last, requests,
                   docs, found, harnessVars, wsVars>>

\* const updatedProfile = await db.getGaugeProfileById(gaugeId)
HandlerReselect(r) ==
    /\ pc[r].at = "reselect"
    /\ pc' = [pc EXCEPT ![r].at = "audit",
                        ![r].profile = getGaugeProfileById(gauges, pc[r].target)]
    /\ UNCHANGED <<docs, found, harnessVars, systemVars, wsVars>>

\* await db.createAuditEntry({...})
HandlerAudit(r) ==
    /\ pc[r].at = "audit"
    /\ audit' = audit \cup {AuditRow(nextId + 1, pc[r].target,
                                      IF Creates(r) THEN "create" ELSE "update",
                                      pc[r].body.last_modified_by, now)}
    /\ nextId' = nextId + 1
    /\ pc' = [pc EXCEPT ![r].at = "thresholds", ![r].auditId = nextId + 1]
    /\ UNCHANGED <<deployment, gauges, alertStore, stored, last, requests,
                   docs, found, harnessVars, wsVars>>

\* await db.getCapacityThresholds() and the alerts of the request
HandlerThresholds(r) ==
    /\ pc[r].at = "thresholds"
    /\ LET as == IF Creates(r)
                 THEN WithMessage(
                          AlertManager_generateAlertsForGauge(pc[r].profile, stored, now),
                          "level")
                 ELSE AlertManager_processGaugeUpdate(pc[r].existingProfile,
                                                      pc[r].profile, stored, now)
           next == Following("thresholds", 0, Len(as))
       IN  /\ pc' = [pc EXCEPT ![r].alerts = AlertSeq(as, pc[r].target, nextId, now),
                               ![r].at = next.at,
                               ![r].i = next.i]
           /\ nextId' = nextId + Len(as)
    /\ UNCHANGED <<deployment, gauges, alertStore, audit, stored, last, requests,
                   docs, found, harnessVars, wsVars>>

\* await db.createAlert(alert)
HandlerCreateAlert(r) ==
    /\ pc[r].at = "createAlert"
    /\ alertStore' = alertStore \cup {pc[r].alerts[pc[r].i]}
    /\ LET next == Following("createAlert", pc[r].i, Len(pc[r].alerts))
       IN  pc' = [pc EXCEPT ![r].at = next.at, ![r].i = next.i]
    /\ UNCHANGED <<deployment, gauges, audit, stored, nextId, last, requests,
                   docs, found, harnessVars, wsVars>>

\* wsManager.broadcastAlertCreated(alert)
HandlerBroadcastAlert(r) ==
    /\ pc[r].at = "broadcastAlertCreated"
    /\ LET sent == WebSocketManager_broadcast(
                       clients, readyState, inbox,
                       Message("alert_created", pc[r].alerts[pc[r].i]), {})
           next == Following("broadcastAlertCreated", pc[r].i, Len(pc[r].alerts))
       IN  /\ clients' = sent.clients
           /\ inbox' = sent.inbox
           /\ pc' = [pc EXCEPT ![r].at = next.at, ![r].i = next.i]
    /\ sends' = sends + 1
    /\ UNCHANGED <<wss, readyState, signalled, docs, found, harnessVars, systemVars>>

\* wsManager.broadcastGaugeCreated(enrichedProfile) or
\* wsManager.broadcastGaugeUpdated(enrichedProfile, updateData), then the answer
HandlerBroadcastGauge(r) ==
    /\ pc[r].at = "broadcast"
    /\ LET sent == WebSocketManager_broadcast(
                       clients, readyState, inbox,
                       Message(IF Creates(r) THEN "gauge_created" ELSE "gauge_updated",
                               [profile |-> pc[r].profile, request |-> r]), {})
       IN  /\ clients' = sent.clients
           /\ inbox' = sent.inbox
    /\ sends' = sends + 1
    /\ pc' = [pc EXCEPT ![r].at = "done", ![r].code = IF Creates(r) THEN 201 ELSE 200]
    /\ UNCHANGED <<wss, readyState, signalled, docs, found, harnessVars, systemVars>>

HandlerNext ==
    \E r \in Handlers :
        \/ HandlerSelect(r)
        \/ HandlerWrite(r)
        \/ HandlerReselect(r)
        \/ HandlerAudit(r)
        \/ HandlerThresholds(r)
        \/ HandlerCreateAlert(r)
        \/ HandlerBroadcastAlert(r)
        \/ HandlerBroadcastGauge(r)

HandlerSpec == HandlerInit /\ [][HandlerNext]_vars

----------------------------------------------------------------------------
(* Vocabulary of the properties                                            *)

\* the status held in `status` was computed by that classifier from the
\* current profile and thresholds on the current day
ByManager ==
    \/ op = "manager" /\ ~ticked
    \/ op \in {"manager_again", "manager_more"}

ByService ==
    \/ op = "service" /\ ~ticked
    \/ op \in {"service_again", "service_more"}

Numeric(p) ==
    ~IsNaN(p.max_capacity) /\ ~IsNaN(p.produced_quantity) /\ ~IsNaN(p.calibration_frequency)

\* max_capacity > 0, produced_quantity >= 0, calibration_frequency > 0
WellFormed(p) ==
    /\ Numeric(p)
    /\ p.max_capacity.v > 0
    /\ p.produced_quantity.v >= 0
    /\ p.calibration_frequency.v > 0

Malformed(p) == ~WellFormed(p)

Remaining(p) == p.max_capacity.v - p.produced_quantity.v

\* remaining capacity <= cutoff fraction of max_capacity, the cutoff in hundredths
AtOrBelowCutoff(p, hundredths) == Remaining(p) * 100 <= p.max_capacity.v * hundredths

\* utilization >= percent
UtilizationAtLeast(p, percent) == p.produced_quantity.v * 100 >= percent * p.max_capacity.v

\* last_calibration_date plus calibration_frequency months
NextCalibrationDue(p) == setMonth(p.last_calibration_date, p.calibration_frequency.v)

PastDue(p) == DateLt(NextCalibrationDue(p), now)

WholeMonthsElapsed(p) == now.ym - p.last_calibration_date.ym

\* the months left until calibration are within the configured warning window
DueSoon(p) ==
    p.calibration_frequency.v - WholeMonthsElapsed(p) <= thresholds.calibration_warning_months

\* the capacity cutoffs each variant is configured with, in hundredths of
\* max_capacity; the SQLite variant has a near-limit percentage only, its
\* overdue cutoff is fixed at 0 and it has no calibration-required cutoff
NearLimitCutoff == IF ByManager THEN 100 - thresholds.near_limit_percentage
                   ELSE svcThresholds.near_limit_threshold

OverdueCutoff == IF ByManager THEN 0 ELSE svcThresholds.overdue_capacity_threshold

CapacityCalibrationRequired(p) ==
    ByService /\ AtOrBelowCutoff(p, svcThresholds.calibration_required_threshold)

OverdueCondition(p) == AtOrBelowCutoff(p, OverdueCutoff) \/ PastDue(p)

CalibrationRequiredCondition(p) == CapacityCalibrationRequired(p) \/ DueSoon(p)

NearLimitCondition(p) == AtOrBelowCutoff(p, NearLimitCutoff)

Rank(s) == CASE s = "safe" -> 0
             [] s = "near_limit" -> 1
             [] s = "calibration_required" -> 2
             [] s = "overdue" -> 3

CapacityAlerts(as) == SelectSeq(as, LAMBDA a : a.type = "capacity")

CalibrationAlerts(as) == SelectSeq(as, LAMBDA a : a.type = "calibration")

----------------------------------------------------------------------------
(* C1: a gauge whose next-calibration date (last_calibration_date plus     *)
(* calibration_frequency months) is strictly before the current date is    *)
(* classified overdue, whatever its capacity figures.                      *)
C1_PastDueIsOverdue ==
    ((ByManager \/ ByService) /\ WellFormed(profile) /\ PastDue(profile))
        => status = "overdue"

(* C2: a gauge with max_capacity > 0 and produced_quantity > max_capacity  *)
(* is classified overdue under every threshold configuration, and the call *)
(* raises nothing.                                                         *)
OverFilled(p) == Numeric(p) /\ p.max_capacity.v > 0 /\ p.produced_quantity.v > p.max_capacity.v

C2_OverFilledIsOverdue ==
    ((ByManager \/ ByService) /\ OverFilled(profile))
        => (status = "overdue" /\ error = "none")

C2_Witness ==
    /\ op = "service"
    /\ OverFilled(profile)
    /\ svcThresholds.overdue_capacity_threshold = 0
    /\ status = "overdue"

(* C3: a gauge that does not meet the overdue condition is classified      *)
(* calibration_required when its remaining capacity is at or below the     *)
(* calibration-required cutoff, or when the whole months elapsed since the *)
(* last calibration are within the warning window of the frequency.        *)
C3_CalibrationRequired ==
    ((ByManager \/ ByService) /\ WellFormed(profile)
      /\ ~OverdueCondition(profile) /\ CalibrationRequiredCondition(profile))
        => status = "calibration_required"

(* C4: a gauge that is not overdue and meets a calibration-required        *)
(* condition and the near-limit condition together is classified           *)
(* calibration_required, not near_limit (first match wins).                *)
C4_CalibrationRequiredBeforeNearLimit ==
    ((ByManager \/ ByService) /\ WellFormed(profile)
      /\ ~OverdueCondition(profile) /\ CalibrationRequiredCondition(profile)
      /\ NearLimitCondition(profile))
        => (status = "calibration_required" /\ status # "near_limit")

(* C5: a gauge that is neither overdue nor calibration_required is         *)
(* classified near_limit whenever its remaining capacity is at or below    *)
(* the near-limit cutoff (utilization at or above the complementary        *)
(* percentage).                                                            *)
C5_NearLimit ==
    ((ByManager \/ ByService) /\ WellFormed(profile)
      /\ ~OverdueCondition(profile) /\ ~CalibrationRequiredCondition(profile)
      /\ NearLimitCondition(profile))
        => status = "near_limit"

\* max_capacity=1000, produced_quantity=850, near-limit cutoff 0.2, calibration not due
C5_Witness ==
    /\ op = "manager"
    /\ ~ticked
    /\ profile.max_capacity = Num(1000)
    /\ profile.produced_quantity = Num(850)
    /\ thresholds.near_limit_percentage = 80
    /\ ~PastDue(profile) /\ ~DueSoon(profile)
    /\ status = "near_limit"

(* C6: a gauge whose remaining capacity is strictly above the near-limit   *)
(* cutoff and whose calibration is neither past due nor within the warning *)
(* window is classified safe.                                              *)
C6_AboveNearLimitIsSafe ==
    ((ByManager \/ ByService) /\ WellFormed(profile)
      /\ ~NearLimitCondition(profile) /\ ~PastDue(profile) /\ ~DueSoon(profile))
        => status = "safe"

(* C6 as amended: a gauge whose remaining capacity is strictly above every *)
(* configured capacity cutoff (near-limit, calibration-required and        *)
(* overdue) and whose calibration is neither past due nor within the       *)
(* warning window is classified safe.                                      *)
C6_AboveEveryCutoffIsSafe ==
    ((ByManager \/ ByService) /\ WellFormed(profile)
      /\ ~NearLimitCondition(profile) /\ ~CapacityCalibrationRequired(profile)
      /\ ~AtOrBelowCutoff(profile, OverdueCutoff)
      /\ ~PastDue(profile) /\ ~DueSoon(profile))
        => status = "safe"

C6_Witness ==
    /\ op = "service"
    /\ ~ticked
    /\ WellFormed(profile)
    /\ svcThresholds.calibration_required_threshold > svcThresholds.near_limit_threshold
    /\ ~AtOrBelowCutoff(profile, svcThresholds.calibration_required_threshold)
    /\ ~PastDue(profile) /\ ~DueSoon(profile)
    /\ status = "safe"

(* C7: with everything else equal, a gauge with a larger produced_quantity *)
(* (p1 <= p2 <= max_capacity) never has an earlier status in the order     *)
(* safe < near_limit < calibration_required < overdue.                     *)
C7_MonotoneInProducedQuantity ==
    (op \in {"manager_more", "service_more"} /\ WellFormed(profile))
        => Rank(prevStatus) <= Rank(status)

C7_Witness ==
    /\ op = "manager_more"
    /\ WellFormed(profile)
    /\ prevStatus = "safe"
    /\ status = "near_limit"

C9_MalformedInputRaises ==
    (op \in {"manager", "alerts"} /\ Malformed(profile))
        => (error = "validation" /\ status = "none" /\ alerts = <<>>)

(* C10: the stateless alert generator emits exactly one capacity/high      *)
(* alert when remaining capacity <= 0, otherwise exactly one               *)
(* capacity/medium alert when utilization >= the near-limit percentage,    *)
(* otherwise no capacity alert.                                            *)
C10_CapacityAlerts ==
    (op = "alerts" /\ Numeric(profile) /\ profile.max_capacity.v > 0)
        => CapacityAlerts(alerts) =
              IF Remaining(profile) <= 0
              THEN <<Alert("capacity", "high")>>
              ELSE IF UtilizationAtLeast(profile, thresholds.near_limit_percentage)
                   THEN <<Alert("capacity", "medium")>>
                   ELSE <<>>

\* produced_quantity = max_capacity = 1000: exactly one capacity/high alert
C10_Witness ==
    /\ op = "alerts"
    /\ profile.max_capacity = Num(1000)
    /\ profile.produced_quantity = Num(1000)
    /\ CapacityAlerts(alerts) = <<Alert("capacity", "high")>>

(* C11: the stateless alert generator emits exactly one calibration/high   *)
(* alert when the calendar months since the last calibration (year         *)
(* difference * 12 + month difference) are >= calibration_frequency,       *)
(* otherwise exactly one calibration/medium alert when the months until    *)
(* the next calibration are <= the warning window, otherwise no            *)
(* calibration alert.                                                      *)
C11_CalibrationAlerts ==
    op = "alerts"
        => CalibrationAlerts(alerts) =
              IF WholeMonthsElapsed(profile) >= profile.calibration_frequency.v
              THEN <<Alert("calibration", "high")>>
              ELSE IF DueSoon(profile)
                   THEN <<Alert("calibration", "medium")>>
                   ELSE <<>>

\* calibrated on the 31st, one calendar month later on the 15th, frequency 1:
\* one calendar month has elapsed though fewer than 31 days have
C11_Witness ==
    /\ op = "alerts"
    /\ profile.last_calibration_date.d = 31
    /\ now.d = 15
    /\ WholeMonthsElapsed(profile) = 1
    /\ profile.calibration_frequency = Num(1)
    /\ CalibrationAlerts(alerts) = <<Alert("calibration", "high")>>

(* C12: whenever classify returns safe, the alert generator applied to the *)
(* same gauge and thresholds on the same current date emits no alert.      *)
C12_SafeHasNoAlert ==
    ((op = "manager_alerts" /\ ~ticked) \/ op = "service_alerts")
        => (status = "safe" => alerts = <<>>)

C12_Witness ==
    /\ op = "manager_alerts"
    /\ ~ticked
    /\ WellFormed(profile)
    /\ status = "safe"
    /\ alerts = <<>>

----------------------------------------------------------------------------
(* Vocabulary of the properties over the stores                            *)

\* the alerts the last request created
EmittedAlerts == {a \in alertStore : a.id \in last.emitted}

CrossingAlerts(rows) == {a \in rows : a.message = "crossed capacity threshold"}

OverCapacityAlerts(rows) == {a \in rows : a.message = "exceeded maximum capacity"}

Range(seq) == {seq[i] : i \in 1..Len(seq)}

\* utilization < percent
UtilizationBelow(p, percent) == p.produced_quantity.v * 100 < percent * p.max_capacity.v

\* the update takes the gauge from below the near-limit threshold to it or above
CrossesNearLimit(old, new) ==
    /\ UtilizationBelow(old, stored.near_limit_percentage)
    /\ UtilizationAtLeast(new, stored.near_limit_percentage)

\* the update takes the gauge from within capacity to over capacity
GoesOverCapacity(old, new) ==
    /\ old.produced_quantity.v <= old.max_capacity.v
    /\ new.produced_quantity.v > new.max_capacity.v

\* the last request was a gauge update that succeeded
GaugeUpdated == last.route = "PUT /api/gauges/:id" /\ last.code = 200

(* C13: the delta alert generator is edge-triggered.  Over any sequence of *)
(* updates to one gauge, an update emits one near-limit crossing alert     *)
(* when the old utilization is below the near-limit threshold and the new  *)
(* one is at or above it, and none otherwise; it emits one over-capacity   *)
(* alert when the old produced_quantity is within capacity and the new one *)
(* exceeds it, and none otherwise.  The same holds of the generator on     *)
(* every pair of gauge states with a positive max_capacity, under the      *)
(* thresholds stored at the time.                                          *)
C13_EdgeTriggered ==
    deployment = "ts" =>
    /\ GaugeUpdated =>
          LET new == getGaugeProfileById(gauges, last.target)
          IN  /\ Cardinality(CrossingAlerts(EmittedAlerts)) =
                    IF CrossesNearLimit(last.old, new) THEN 1 ELSE 0
              /\ Cardinality(OverCapacityAlerts(EmittedAlerts)) =
                    IF GoesOverCapacity(last.old, new) THEN 1 ELSE 0
    /\ \A old, new \in {b \in Bodies : b.max_capacity.v > 0} :
          LET emitted == Range(AlertManager_processGaugeUpdate(old, new, stored, now))
          IN  /\ Cardinality(CrossingAlerts(emitted)) =
                    IF CrossesNearLimit(old, new) THEN 1 ELSE 0
              /\ Cardinality(OverCapacityAlerts(emitted)) =
                    IF GoesOverCapacity(old, new) THEN 1 ELSE 0

\* the gauge went from 70% to 85% with one crossing alert, and the update
\* from 85% to 90% that followed emitted no alert
C13_Witness ==
    /\ deployment = "ts"
    /\ GaugeUpdated
    /\ stored.near_limit_percentage = 80
    /\ last.old.produced_quantity = Num(17)
    /\ getGaugeProfileById(gauges, last.target).produced_quantity = Num(18)
    /\ last.emitted = {}
    /\ Cardinality(CrossingAlerts({a \in alertStore : a.gauge_id = last.target})) = 1

\* the last request was a gauge delete that succeeded
GaugeDeleted == last.route = "DELETE /api/gauges/:id" /\ last.code = 200

(* C14: deleting a gauge cascades to its alerts.  Once a gauge delete has  *)
(* completed successfully, the alert store contains no alert whose         *)
(* gauge_id is that of the deleted gauge.                                  *)
C14_DeleteCascades ==
    GaugeDeleted => \A a \in alertStore : a.gauge_id # last.target

\* the fields of an alert that are fixed at its creation
CreatedFields(a) == <<a.id, a.gauge_id, a.type, a.severity, a.message, a.created_at>>

(* C15: an alert is immutable once created except for its acknowledgment   *)
(* fields.  For every stored alert and every operation other than deleting *)
(* the alert, its id, gauge_id, type, severity, message and created_at     *)
(* after the operation equal their values before it; only acknowledged,    *)
(* acknowledged_by and acknowledged_at may change.                         *)
C15_AlertImmutable ==
    [][\A a \in alertStore : \A b \in alertStore' :
          b.id = a.id => CreatedFields(b) = CreatedFields(a)]_vars

\* an alert created by hand has been acknowledged: the acknowledgment is
\* recorded on it and the fields it was created with are as they were
C15_Witness ==
    /\ last.route = "PUT /api/alerts/:id/acknowledge"
    /\ last.code = 200
    /\ \E a \in alertStore :
          /\ a.acknowledged_by = "alice"
          /\ a.acknowledged_at = Today
          /\ a.type = "capacity_exhaustion"
          /\ a.severity = "warning"
          /\ a.message = "manual"

(* C16: the audit log is append-only and write-once.  Across every         *)
(* sequence of operations, admin reset and admin delete-all-data           *)
(* included, an audit entry once written is never modified and never       *)
(* removed: the set of audit entries only grows.                           *)
C16_AuditAppendOnly == [][audit \subseteq audit']_vars

\* the data of a gauge, without the fields derived from them
GaugeData(g) ==
    <<g.gauge_id, g.max_capacity, g.produced_quantity, g.calibration_frequency,
      g.last_calibration_date, g.last_modified_by>>

GaugeDataOf(rows, gaugeId) == {GaugeData(g) : g \in {r \in rows : r.gauge_id = gaugeId}}

(* C17: all data changes are logged.  Every operation that creates,        *)
(* updates or deletes gauge data (manual create, edit and delete,          *)
(* spreadsheet import, bulk update, admin reset of all gauges) writes, for *)
(* each gauge it changed, at least one audit entry carrying the action,    *)
(* the acting user and a timestamp.                                        *)
C17_ChangesAreLogged ==
    [][\A gaugeId \in GaugeIds :
          GaugeDataOf(gauges', gaugeId) # GaugeDataOf(gauges, gaugeId)
              => \E e \in audit' \ audit :
                    /\ e.gauge_id = gaugeId
                    /\ e.action \in {"create", "update", "delete", "import"}
                    /\ e.user # ""
                    /\ e.timestamp = now]_vars

\* every call on the repository has returned
AllCallsFinished == \A c \in DOMAIN pc : pc[c].at = "done"

(* C18: the threshold configuration is a singleton.  Under any             *)
(* interleaving of concurrent getOrCreateDefault, update and reset calls   *)
(* that start on an empty store, at most one threshold configuration       *)
(* record exists once all calls have finished.                             *)
C18_ThresholdsSingleton == AllCallsFinished => Cardinality(docs) <= 1

(* C19: every classification the system performs uses the threshold        *)
(* configuration currently stored, not built-in defaults.  After an admin  *)
(* has updated the thresholds, every later status computation (those made  *)
(* while importing a spreadsheet or recomputing derived fields included)   *)
(* classifies against the updated values: the status an operation writes   *)
(* on a gauge with a positive max_capacity is the one the classifier       *)
(* gives under the stored thresholds.                                      *)
C19_ClassifiesWithStoredThresholds ==
    [][deployment = "mongo"
          => \A g \in gauges' \ gauges :
                g.max_capacity.v > 0
                    => g.status = CapacityService_determineGaugeStatus(g, stored', now)]_vars

(* C20: every gauge record stored through any entry path (manual create,   *)
(* manual edit, spreadsheet import, bulk update) satisfies                 *)
(* max_capacity > 0, produced_quantity >= 0 and calibration_frequency > 0; *)
(* an input violating any of these is rejected at the data-entry boundary  *)
(* and nothing is stored for it.                                           *)
C20_StoredGaugesWellFormed == \A g \in gauges : WellFormed(g)

(* C21: gauge_id is unique.  At every moment at most one stored gauge      *)
(* record has any given gauge_id, under any interleaving of concurrent     *)
(* manual-create and spreadsheet-import requests, an import whose file     *)
(* holds the same gauge_id on two rows included.                           *)
C21_GaugeIdUnique == \A r1, r2 \in docs : r1.gauge_id = r2.gauge_id => r1 = r2

\* a create and an import with G1 on two rows have both finished; one of
\* them saw no G1 and had its INSERT refused; one G1 row is stored
C21_Witness ==
    /\ AllCallsFinished
    /\ \E c, d \in Calls :
          /\ pc[c].call = "create" /\ pc[c].ids = <<"G1">>
          /\ pc[d].call = "import" /\ pc[d].ids = <<"G1", "G1">>
          /\ pc[c].refused + pc[d].refused > 0
    /\ Cardinality({r \in docs : r.gauge_id = "G1"}) = 1

\* the gauge_ids stored
StoredIds(rows) == {r.gauge_id : r \in rows}

\* the routes that update existing gauges
UpdateRoutes ==
    {"PUT /api/gauges/:id", "POST /api/upload/import", "POST /api/upload/bulk-update",
     "ExcelService.importFromExcel"}

(* C22: gauge_id is stable.  No update path (manual edit, spreadsheet      *)
(* import with overwrite, bulk update) changes the gauge_id of an existing *)
(* gauge record, even when the request supplies a different gauge_id:      *)
(* every gauge_id stored before such a request is stored after it, and     *)
(* the request adds no record under the gauge_id a manual edit supplied.   *)
C22_GaugeIdStable ==
    [][last'.route \in UpdateRoutes
          => /\ StoredIds(gauges) \subseteq StoredIds(gauges')
             /\ last'.route = "PUT /api/gauges/:id"
                   => StoredIds(gauges') = StoredIds(gauges)]_vars

\* a manual edit of G1 whose body names G2 succeeded; G1 is stored with the
\* figures of the body, and no G2 is
C22_Witness ==
    /\ GaugeUpdated
    /\ last.target = "G1"
    /\ last.supplied = "G2"
    /\ StoredIds(gauges) = {"G1"}
    /\ getGaugeProfileById(gauges, "G1").produced_quantity = Num(17)
    /\ last.old.produced_quantity = Num(14)

\* the date held in `nextDate` was returned by calculateNextCalibrationDate
\* for the current profile
NextDateComputed == op \in {"manager_next", "service_next"}

(* C23: nextCalibrationDate called with a frequency of 0 months is         *)
(* rejected as invalid input; it does not return a date.                   *)
C23_ZeroFrequencyRejected ==
    (NextDateComputed /\ profile.calibration_frequency = Num(0))
        => (error # "none" /\ nextDate = Undefined)

(* C24: for every date d and every frequency m > 0,                        *)
(* nextCalibrationDate(d, m) returns a date strictly after d.              *)
C24_NextDateIsLater ==
    (NextDateComputed /\ Numeric(profile) /\ profile.calibration_frequency.v > 0)
        => DateLt(profile.last_calibration_date, nextDate)

\* one month after January 31st of a non-leap year: the day rolls over
\* into March
C24_Witness ==
    /\ op = "service_next"
    /\ profile.last_calibration_date = [ym |-> 0, d |-> 31]
    /\ profile.calibration_frequency = Num(1)
    /\ nextDate = [ym |-> 2, d |-> 3]

\* the gauges a request of the service deployment called
\* AlertService.generateAlertsForGauge for: all of them in a bulk regeneration,
\* those whose status changed in a threshold update
Regenerated ==
    IF last'.route = "POST /api/admin/regenerate-alerts" THEN gauges'
    ELSE gauges' \ gauges

AlertsOf(rows, gaugeId) == {a \in rows : a.gauge_id = gaugeId}

C26_OneAlertAfterConcurrentRegeneration ==
    AllCallsFinished => \A gaugeId \in GaugeIds : Cardinality(AlertsOf(docs, gaugeId)) <= 1

\* the request answered last was a successful recalculation of a gauge
Recalculated(response) ==
    response.route = "POST /api/gauges/:id/recalculate" /\ response.code = 200

(* C27: explicit recalculation is idempotent on the alert store.  Invoking *)
(* POST /api/gauges/:id/recalculate twice in succession on an unchanged    *)
(* gauge with unchanged thresholds leaves the same number of alerts stored *)
(* for that gauge as invoking it once.                                     *)
C27_RecalculateIdempotent ==
    [][(/\ Recalculated(last)
        /\ Recalculated(last')
        /\ last'.target = last.target
        /\ requests' = requests + 1)
          => Cardinality(AlertsOf(alertStore', last.target))
                = Cardinality(AlertsOf(alertStore, last.target))]_vars

\* the import answered last, its options and its statistics
Imported(response) ==
    deployment = "ts" /\ response.route = "POST /api/upload/import" /\ response.code = 200

\* the messages the loop of the import pushed for parsed rows
RowErrors(stats) == Cardinality({i \in DOMAIN stats.errors : stats.errors[i] = "exists"})

(* C28: in a spreadsheet import every successfully parsed row ends in      *)
(* exactly one outcome.  A row whose gauge_id is not yet stored is         *)
(* inserted; a row whose gauge_id exists is updated if replace_existing is *)
(* set, otherwise skipped and left unchanged if skip_duplicates is set,    *)
(* otherwise reported as a row error and left unchanged: inserted +        *)
(* updated + skipped + per-row errors equals the number of parsed rows.    *)
C28_ImportOutcomes ==
    [][(Imported(last') /\ requests' = requests + 1)
          => LET s == last'.stats
                 o == last'.options
             IN  /\ s.inserted + s.updated + s.skipped + RowErrors(s) = s.total_rows
                 /\ s.inserted = Cardinality(StoredIds(gauges') \ StoredIds(gauges))
                 /\ s.updated > 0 => o.replace_existing
                 /\ s.skipped > 0 => ~o.replace_existing /\ o.skip_duplicates
                 /\ RowErrors(s) > 0 => ~o.replace_existing /\ ~o.skip_duplicates
                 /\ ~o.replace_existing => gauges \subseteq gauges']_vars

\* a sheet of a refused row and a row for the stored gauge G1, imported with
\* neither option: the one parsed row is reported and G1 is as it was
C28_Witness ==
    /\ Imported(last)
    /\ ~last.options.replace_existing
    /\ ~last.options.skip_duplicates
    /\ last.stats = [total_rows |-> 1, inserted |-> 0, updated |-> 0, skipped |-> 0,
                     errors |-> <<"parse", "exists">>]
    /\ StoredIds(gauges) = {"G1"}

\* the messages of a socket that came through broadcast()
Broadcasts(box) == SelectSeq(box, LAMBDA m : m.type \in BroadcastTypes)

(* C29: a WebSocket client whose connection has closed or errored receives *)
(* no later broadcast.  broadcast sends only to clients in the OPEN state  *)
(* and drops every other client from the client set, and after shutdown()  *)
(* the client set is empty so no client receives any subsequent broadcast. *)
C29_NoBroadcastAfterClose ==
    [][/\ \A c \in Sockets :
             Broadcasts(inbox'[c]) # Broadcasts(inbox[c])
                => /\ readyState[c] = "OPEN"
                   /\ signalled[c] = "none"
                   /\ c \in clients
                   /\ wss = "running"
       /\ sends' # sends => clients' \subseteq {c \in clients : readyState[c] = "OPEN"}
       /\ wss' = "null" => clients' = {}]_vars

\* w1 and w2 received a first broadcast, w1 closed, and a second broadcast
\* reached w2 alone
C29_Witness ==
    /\ signalled["w1"] = "close"
    /\ readyState["w1"] = "CLOSED"
    /\ inbox["w1"] = <<Message("connection", "none"), Message("gauge_updated", "none")>>
    /\ inbox["w2"] = <<Message("connection", "none"), Message("gauge_updated", "none"),
                       Message("gauge_updated", "none")>>
    /\ clients = {"w2"}

\* the audit entry and the gauge row of the request a gauge event came from
\* are in the stores
GaugeEventPersisted(m) ==
    LET r == m.data.request
        action == IF m.type = "gauge_created" THEN "create" ELSE "update"
    IN  /\ \E g \in gauges : g.gauge_id = m.data.profile.gauge_id
        /\ \E e \in audit : /\ e.id = pc[r].auditId
                              /\ e.gauge_id = m.data.profile.gauge_id
                              /\ e.action = action

(* C30: persist-before-broadcast ordering in gauge create and update       *)
(* handling.  An alert_created event for an alert is broadcast only after  *)
(* that alert has been written to the alert store, and the gauge_created   *)
(* or gauge_updated event of the request only after the gauge row and its  *)
(* audit entry have been written.                                          *)
C30_PersistBeforeBroadcast ==
    \A c \in Sockets : \A k \in DOMAIN inbox[c] :
        LET m == inbox[c][k]
        IN  /\ m.type = "alert_created" => m.data \in alertStore
            /\ m.type \in {"gauge_created", "gauge_updated"} => GaugeEventPersisted(m)

\* an update took G1 over the near-limit threshold: the socket was told of
\* the alert and then of the gauge, and both requests are over
C30_Witness ==
    /\ AllCallsFinished
    /\ Len(inbox["w1"]) >= 3
    /\ inbox["w1"][2].type = "alert_created"
    /\ inbox["w1"][2].data \in alertStore
    /\ inbox["w1"][3].type = "gauge_updated"
    /\ inbox["w1"][3].data.profile.produced_quantity = Num(18)

====
